---- MODULE Spec2Model ----
(***************************************************************************)
(* Secure-desktop continuity of the remote client                          *)
(* (source/_remoteClient/secureDesktop.py, class SecureDesktopHandler).    *)
(*                                                                         *)
(* One handler (the writer, on the regular desktop) and the copies started *)
(* inside the secure desktop (the readers) share a named file mapping and  *)
(* a named event.  The handler's methods run on one thread and are split   *)
(* into the steps at which another process can observe the mapping or the  *)
(* event; the readers run concurrently with them.                          *)
(***************************************************************************)
EXTENDS Integers, Sequences, FiniteSets, TLC

(***************************************************************************)
(* Strings are sequences of one-character strings.                         *)
(***************************************************************************)
NUL == "NUL"

None == "None"

\* SecureDesktopHandler._IPC_MAXLEN: length of the shared buffer, in characters.
IPC_MAXLEN == 64

\* len(str(uuid.uuid4()))
UUID_LEN == 36

\* Upper bound on the number of enterSecureDesktop calls that start a relay server.
MaxEnters == 2

\* Upper bound on the number of collaborator calls that raise.
MaxRaises == 1

\* The ports the OS may assign to a relay server bound with port=0.
Ports == {65534, 65535}

\* The lengths of the channel string: str(uuid.uuid4()) has UUID_LEN characters;
\* the longer ones stand for a token generator that is replaced, they produce the
\* payloads that fill or exceed the buffer.
ChannelLens == {UUID_LEN, 53, 54}

\* The positions at which a concurrent reader may see a buffer write interrupted.
PartialCuts == {2, 12}

Sessions == {"s1", "s2", "s0"}

Readers == {"r1", "r2"}

\* The copies that run under Spec: one at a time.
OneReader == {"r1"}

\* FollowerSession.transport: s0 is a session whose transport is None.
transport(s) == CASE s = "s1" -> "t1" [] s = "s2" -> "t2" [] OTHER -> None

DigitChars == <<"0", "1", "2", "3", "4", "5", "6", "7", "8", "9">>

RECURSIVE str(_)
\* str(int) of a natural number, as json.dumps writes it.
str(n) == IF n < 10 THEN <<DigitChars[n + 1]>>
          ELSE str(n \div 10) \o <<DigitChars[(n % 10) + 1]>>

\* The character the n-th generated token is made of: tokens of different
\* calls share no character.
TokenChars == <<"a", "b", "c", "d", "e", "f">>

\* A token that is generated once and used by every call.
uuid4Once(n, len) == [n |-> 1, len |-> len]

\* uuid.uuid4() of the n-th call, whose str() has len characters.
uuid4(n, len) == [n |-> n, len |-> len]

\* str(u) of a generated token.
chars(u) == [i \in 1..u.len |-> TokenChars[u.n]]

\* json.dumps of a mapping in place of the list: the keys take the slack.
dumpsObject(port, channel) ==
    <<"{", "\"", "p", "o", "r", "t", "\"", ":", " ">> \o str(port)
        \o <<",", " ", "\"", "c", "h", "a", "n", "n", "e", "l", "\"", ":", " ", "\"">>
        \o channel \o <<"\"", "}">>

\* json.dumps([port, channel]) for an int and a string without escapes.
dumps(port, channel) ==
    <<"[">> \o str(port) \o <<",", " ", "\"">> \o channel \o <<"\"", "]">>

Zeros == [i \in 1..IPC_MAXLEN |-> NUL]

\* buffer.value = s on a (WCHAR * _IPC_MAXLEN) array that holds buf:
\* the characters of s, then a NUL if there is room for one; the rest is kept.
\* (For Len(s) > IPC_MAXLEN ctypes raises ValueError and writes nothing.)
setValue(buf, s) ==
    [i \in 1..IPC_MAXLEN |->
        IF i <= Len(s) THEN s[i]
        ELSE IF i = Len(s) + 1 THEN NUL
        ELSE buf[i]]

\* The first k characters of the write of s have reached buf.
partialValue(buf, s, k) ==
    [i \in 1..IPC_MAXLEN |-> IF i <= k /\ i <= Len(s) THEN s[i] ELSE buf[i]]

RECURSIVE nulIndex(_, _)
nulIndex(buf, i) ==
    IF i > Len(buf) THEN Len(buf) + 1
    ELSE IF buf[i] = NUL THEN i
    ELSE nulIndex(buf, i + 1)

\* The whole array read instead of the string in it.
wholeArray(buf) == buf

\* ctypes.wstring_at(address): the characters up to the first NUL
\* (the pages behind the 64 characters of the view are zero).
wstring_at(buf) == SubSeq(buf, 1, nulIndex(buf, 1) - 1)

(***************************************************************************)
(* json.loads, for the texts that can stand in the buffer: arrays of       *)
(* unsigned integers and escape-free strings, with optional blanks.        *)
(* A parse result is [ok, val, rest].                                      *)
(***************************************************************************)
IsDigit(c) == \E d \in 1..10 : DigitChars[d] = c

DigitVal(c) == (CHOOSE d \in 1..10 : DigitChars[d] = c) - 1

RECURSIVE skipWs(_)
skipWs(s) == IF s # <<>> /\ Head(s) = " " THEN skipWs(Tail(s)) ELSE s

RECURSIVE scanInt(_, _)
scanInt(s, acc) ==
    IF s # <<>> /\ IsDigit(Head(s))
    THEN scanInt(Tail(s), acc * 10 + DigitVal(Head(s)))
    ELSE [ok |-> TRUE, val |-> [kind |-> "int", v |-> acc], rest |-> s]

RECURSIVE scanString(_, _)
scanString(s, acc) ==
    IF s = <<>> THEN [ok |-> FALSE]
    ELSE IF Head(s) = "\"" THEN
        [ok |-> TRUE, val |-> [kind |-> "str", v |-> acc], rest |-> Tail(s)]
    ELSE scanString(Tail(s), Append(acc, Head(s)))

\* One JSON value: a number without leading zeros, or a string.
scanValue(s) ==
    IF s = <<>> THEN [ok |-> FALSE]
    ELSE IF Head(s) = "\"" THEN scanString(Tail(s), <<>>)
    ELSE IF Head(s) = "0" THEN
        IF Len(s) > 1 /\ IsDigit(s[2]) THEN [ok |-> FALSE]
        ELSE [ok |-> TRUE, val |-> [kind |-> "int", v |-> 0], rest |-> Tail(s)]
    ELSE IF IsDigit(Head(s)) THEN scanInt(s, 0)
    ELSE [ok |-> FALSE]

RECURSIVE scanItems(_, _)
\* The items of an array after its "[" and first item: ("," value)* "]".
scanItems(s, acc) ==
    LET t == skipWs(s) IN
    IF t = <<>> THEN [ok |-> FALSE]
    ELSE IF Head(t) = "]" THEN [ok |-> TRUE, val |-> acc, rest |-> Tail(t)]
    ELSE IF Head(t) = "," THEN
        LET v == scanValue(skipWs(Tail(t))) IN
        IF v.ok THEN scanItems(v.rest, Append(acc, v.val)) ELSE [ok |-> FALSE]
    ELSE [ok |-> FALSE]

\* json.loads(s): [ok |-> FALSE] stands for JSONDecodeError.  Every text the
\* buffer can hold is empty or starts with "[", so only arrays are decoded.
loads(s) ==
    LET t == skipWs(s) IN
    IF t = <<>> THEN [ok |-> FALSE]
    ELSE IF Head(t) = "[" THEN
        LET u == skipWs(Tail(t)) IN
        IF u # <<>> /\ Head(u) = "]" THEN
            IF skipWs(Tail(u)) = <<>> THEN [ok |-> TRUE, val |-> <<>>]
            ELSE [ok |-> FALSE]
        ELSE
            LET v == scanValue(u) IN
            IF ~v.ok THEN [ok |-> FALSE]
            ELSE LET r == scanItems(v.rest, <<v.val>>) IN
                 IF r.ok /\ skipWs(r.rest) = <<>>
                 THEN [ok |-> TRUE, val |-> r.val]
                 ELSE [ok |-> FALSE]
    ELSE [ok |-> FALSE]

(***************************************************************************)
(* State.                                                                  *)
(***************************************************************************)
\* Python's None for the fields that hold a handle or an object.
NoId == 0

VARIABLES
    \* fields of the SecureDesktopHandler of the regular desktop
    followerSession, sdServer, sdRelay, sdBridge, mapFile, bufferAddress,
    \* the objects that exist outside the handler's fields
    servers,      \* relay servers listening: [id, port, channel]
    relays,       \* relay transports not closed
    bridges,      \* connected bridges: <<id, follower transport>>
    dispHook,     \* transports with _onLeaderDisplayChange registered for SET_BRAILLE_INFO
    \* the named event and the named file mapping
    eventSet, shm, hMaps, hViews,
    \* the handler call in progress: position and locals
    pc, caller, arg, lId, lPort, lChannel,
    \* history: the calls made by the current (or last) handler call, its name,
    \* whether it raised; the next object id, the number of calls that raised,
    \* the ids of the bundles whose construction was completed
    ops, call, raised, nextId, raises, built,
    issued,       \* the tokens uuid.uuid4() has returned, in the order of the calls
    \* the copies running initializeSecureDesktop
    rpc, rMapFile, rView, rResult,
    \* the handler's life: whether _onSecureDesktopChange is registered with
    \* post_secureDesktopStateChange, the handler's handle of the named event,
    \* and the messages the current _onLeaderDisplayChange call has sent
    subscribed, ipcEventHandle, sent,
    \* the message a transport is dispatching to its inbound handlers
    inbound,
    \* the sockets connected to a relay server: [name, server, token, authed],
    \* and the background threads that run
    clients, threads,
    \* installer._deleteFileGroupOrFail: the files in the installation
    \* directory and in the temporary one, the files another process holds
    \* open, the files that existed before the call, the position of the call
    \* and its outcome
    installDir, tempDir, openFiles, existed, dpc, dResult,
    \* installerGui._shouldWarnBeforeUpdate: whether the remote client exists,
    \* whether it is connected as follower, whether the user is an
    \* administrator, and the calls made so far with what they returned
    remoteEnabled, isConnectedAsFollower, isUserAnAdmin, warnCalls,
    \* a HandlerRegistrar: _handlers as the sequence of its weak references in
    \* the order of the OrderedDict, the handlers that are alive, the
    \* BoundMethodWeakrefs that are out of _handlers and not yet collected,
    \* and the handlers registered, in the order the callers made
    regHandlers, regAlive, regStale, regOrder,
    \* brailleViewer: _brailleGui, the state of each BrailleViewerFrame,
    \* whether _getDisplayDimensions is registered with
    \* braille.filter_displayDimensions, the frames whose
    \* updateBrailleDisplayed is registered with braille.pre_writeCells, the
    \* frames destroyed with no notify(created=False) since, the argument of
    \* the last notify, and how the last call ended
    brailleGui, frameState, filterRegistered, preWrite, unannounced, notified,
    bvResult,
    \* _magnifier: whether getMagnifier() returns a magnifier, its _isActive,
    \* filterType and _magnifierType, the filter _applyFilter applied last,
    \* the last ui.message, and the filterType at the start and after each of
    \* the toggleFilter calls made in a row
    magnifier, isActive, filterType, magnifierType, appliedFilter, uiMessage,
    toggled,
    \* the handshake over time: whether a leaveSecureDesktop has completed with
    \* no enterSecureDesktop completed since, and for each copy in the secure
    \* desktop when its initializeSecureDesktop started ("off" where this is
    \* not followed)
    leftSince, rStarted

fields == <<followerSession, sdServer, sdRelay, sdBridge, mapFile, bufferAddress>>
objects == <<servers, relays, bridges, dispHook>>
ipc == <<eventSet, shm, hMaps, hViews>>
frame == <<pc, caller, arg, lId, lPort, lChannel>>
hist == <<ops, call, raised, nextId, raises, built, issued>>
readers == <<rpc, rMapFile, rView, rResult>>
\* Where a call of _deleteFileGroupOrFail stands: the step and, in the loop,
\* the index of the file that is next.
stepAt(step, index) == [step |-> step, i |-> index]

\* No message is being dispatched.
NoMessage == [on |-> None]

life == <<subscribed, ipcEventHandle, sent, inbound>>
net == <<clients, threads>>
\* The state of the remote client, and that of the other modules.
remote == <<fields, objects, ipc, frame, hist, readers, life, net>>
installerFiles == <<installDir, tempDir, openFiles, existed, dpc, dResult>>
updateWarning == <<remoteEnabled, isConnectedAsFollower, isUserAnAdmin, warnCalls>>
registrar == <<regHandlers, regAlive, regStale, regOrder>>
viewer == <<brailleGui, frameState, filterRegistered, preWrite, unannounced,
            notified, bvResult>>
magnifierState == <<magnifier, isActive, filterType, magnifierType,
                    appliedFilter, uiMessage, toggled>>
modules == <<installerFiles, updateWarning, registrar, viewer, magnifierState>>
staleness == <<leftSince, rStarted>>
others == <<modules, staleness>>
vars == <<remote, others>>
\* What a step of one module leaves alone.
outsideInstaller == <<remote, staleness, updateWarning, registrar, viewer, magnifierState>>
outsideWarning == <<remote, staleness, installerFiles, registrar, viewer, magnifierState>>
outsideRegistrar == <<remote, staleness, installerFiles, updateWarning, viewer, magnifierState>>
outsideViewer == <<remote, staleness, installerFiles, updateWarning, registrar, magnifierState>>
outsideMagnifier == <<remote, staleness, installerFiles, updateWarning, registrar, viewer>>

\* No call of _deleteFileGroupOrFail has been made.
installerIdle ==
    /\ installDir = {} /\ tempDir = {} /\ openFiles = {} /\ existed = {}
    /\ dpc = stepAt("none", 0) /\ dResult = "none"

\* The remote client is not there and no update has been asked for.
warningIdle ==
    /\ remoteEnabled = FALSE /\ isConnectedAsFollower = FALSE
    /\ isUserAnAdmin = FALSE /\ warnCalls = <<>>

\* A HandlerRegistrar as __init__ leaves it, with no handler around.
registrarIdle ==
    /\ regHandlers = <<>> /\ regAlive = {} /\ regStale = {} /\ regOrder = <<>>

\* The number of BrailleViewerFrames a behaviour creates.
MaxFrames == 3

Frames == 1..MaxFrames

\* _brailleGui is None.
NoFrame == 0

\* The braille viewer as the import of the module leaves it (line 56).
viewerIdle ==
    /\ brailleGui = NoFrame /\ frameState = [f \in Frames |-> "none"]
    /\ filterRegistered = FALSE /\ preWrite = {} /\ unannounced = {}
    /\ notified = "none" /\ bvResult = "none"

\* No magnifier has been started.
magnifierIdle ==
    /\ magnifier = FALSE /\ isActive = FALSE /\ filterType = "none"
    /\ magnifierType = "none" /\ appliedFilter = "none"
    /\ uiMessage = "none" /\ toggled = <<>>

modulesIdle ==
    installerIdle /\ warningIdle /\ registrarIdle /\ viewerIdle /\ magnifierIdle

\* The handshake is not followed over time.
stalenessOff == leftSince = "off" /\ rStarted = [r \in {"r1", "r2"} |-> "off"]

othersIdle == modulesIdle /\ stalenessOff

\* What is noted of the handshake where it is followed.
noted(old, new) == IF old = "off" THEN "off" ELSE new

Pending == [kind |-> "pending"]
\* The result None (no connection), with the return statement that gave it:
\* "open" (lines 319 and 325), "wait" (lines 329, 332 and 335), "try" (line 362).
NoConnection(at) == [kind |-> "None", at |-> at]

\* An exception on its way out of a block.
Raised(exc) == [kind |-> "raised", exc |-> exc]

\* ConnectionInfo(hostname="127.0.0.1", mode=FOLLOWER, key=channel, port=port, insecure=True)
ConnectionInfo(port, channel) ==
    [kind |-> "ConnectionInfo", hostname |-> "127.0.0.1", mode |-> "FOLLOWER",
     key |-> channel, port |-> port, insecure |-> TRUE]

\* The named file mapping exists while a handle or a view of it is open.
mappingExists(hm, hv, rm, rv) ==
    hm # {} \/ hv # {} \/ (\E r \in Readers : rm[r] \/ rv[r])

\* The content of the mapping after handles were closed: the object is
\* destroyed with its last reference and a new one is zero-filled.
released(buf, hm, hv, rm, rv) ==
    IF mappingExists(hm, hv, rm, rv) THEN buf ELSE Zeros

\* SecureDesktopHandler.__init__: no bundle, no session, the event not signalled.
Init ==
    /\ followerSession = None /\ sdServer = NoId /\ sdRelay = NoId
    /\ sdBridge = NoId /\ mapFile = NoId /\ bufferAddress = NoId
    /\ servers = {} /\ relays = {} /\ bridges = {} /\ dispHook = {}
    /\ eventSet = FALSE /\ shm = Zeros /\ hMaps = {} /\ hViews = {}
    /\ pc = "idle" /\ caller = "none" /\ arg = None
    /\ lId = NoId /\ lPort = 0 /\ lChannel = uuid4(0, 0)
    /\ ops = <<>> /\ call = "none" /\ raised = FALSE /\ nextId = 1 /\ raises = 0 /\ built = {} /\ issued = <<>>
    /\ rpc = [r \in Readers |-> "idle"]
    /\ rMapFile = [r \in Readers |-> FALSE]
    /\ rView = [r \in Readers |-> FALSE]
    /\ rResult = [r \in Readers |-> Pending]
    /\ subscribed = TRUE /\ ipcEventHandle = "open" /\ sent = <<>>
    /\ inbound = NoMessage
    /\ clients = {} /\ threads = {}
    /\ othersIdle

(***************************************************************************)
(* The handler's calls.  A call starts at pc = "idle"; at pc = "return" it  *)
(* has ended and what it did is still on record.                           *)
(***************************************************************************)
\* The relay transports, by the id of the bundle they belong to.
RelayNames == <<"relay1", "relay2", "relay3", "relay4">>

relayName(id) == RelayNames[id]

\* Lines 238-240: the thread that runs sdServer.run, the accept loop of the
\* relay server id.
AcceptLoop(id) == [target |-> "sdServer.run", of |-> id]

\* Lines 257-259: the thread that runs sdRelay.run, the read loop of the
\* relay transport id.
ReadLoop(id) == [target |-> "sdRelay.run", of |-> id]

\* LocalRelayServer.close closes the sockets of the server's clients with the
\* listening socket.
serverClosed(cs, id) == {c \in cs : c.server # id}

\* RelayTransport.close closes the transport's socket.
relayClosed(cs, id) == {c \in cs : c.name # relayName(id)}

\* The call returns (or an exception leaves it): its locals are dropped.
clearFrame ==
    caller' = "none" /\ arg' = None /\ lId' = NoId /\ lPort' = 0 /\ lChannel' = uuid4(0, 0)

\* A call begins: call is its name, ops the calls it has made so far.
begin(name) == call' = name /\ ops' = <<>> /\ raised' = FALSE

did(names) == ops' = ops \o names

\* Line 178 testing the session only: a session without a transport passes.
hasFollowerSession == followerSession # None

\* enterSecureDesktop, lines 178-180: a follower session with a transport is required.
hasFollowerTransport ==
    followerSession # None /\ transport(followerSession) # None

\* enterSecureDesktop, lines 175-209: the guard, CreateFileMapping, MapViewOfFile.
enterSecureDesktop ==
    /\ pc = "idle"
    /\ begin("enter")
    /\ UNCHANGED <<fields, objects, eventSet, shm, readers, others, caller, arg,
                   lPort, lChannel, raises, built, issued, life, net>>
    /\ IF ~hasFollowerTransport
       THEN pc' = "return" /\ UNCHANGED <<hMaps, hViews, lId, nextId>>
       ELSE \E outcome \in {"mapped", "createFailed", "mapFailed"} :
            IF outcome = "mapped"
            THEN /\ nextId <= MaxEnters
                 /\ lId' = nextId /\ nextId' = nextId + 1
                 /\ hMaps' = hMaps \cup {nextId}
                 /\ hViews' = hViews \cup {nextId}
                 /\ pc' = "enter_server"
            ELSE \* the handle of a mapping that cannot be viewed is closed again
                 /\ pc' = "return"
                 /\ UNCHANGED <<hMaps, hViews, lId, nextId>>

\* Lines 210-214: the token, the relay server and the port the OS gave it.
enterStartServer ==
    /\ pc = "enter_server"
    /\ \E len \in ChannelLens, port \in Ports \ {s.port : s \in servers} :
         LET channel == uuid4(lId, len)
             srv == [id |-> lId, port |-> port, channel |-> channel] IN
         /\ lChannel' = channel /\ lPort' = port
         /\ sdServer' = lId
         /\ servers' = servers \cup {srv}
         /\ issued' = Append(issued, channel.n)
    /\ did(<<"LocalRelayServer">>)
    /\ pc' = "enter_write"
    /\ UNCHANGED <<followerSession, sdRelay, sdBridge, mapFile, bufferAddress,
                   relays, bridges, dispHook, ipc, caller, arg, lId,
                   call, raised, nextId, built, raises, readers, others, life, net>>

\* Line 224 left out: any text that fits the array is accepted.
terminatorUnchecked(buf) == TRUE

\* Line 224: the last character of the buffer must be the terminator.
terminatorFits(buf) == buf[IPC_MAXLEN] = NUL

\* Line 217, buffer.value = json.dumps([port, channel]): a text longer than the
\* buffer raises ValueError before anything is written; otherwise the characters
\* reach the shared memory one after the other.
enterWrite ==
    /\ pc = "enter_write"
    /\ LET s == dumps(lPort, chars(lChannel)) IN
       IF Len(s) > IPC_MAXLEN
       THEN pc' = "enter_abort" /\ shm' = shm
       ELSE \E k \in PartialCuts :
            shm' = partialValue(shm, s, k) /\ pc' = "enter_write2"
    /\ UNCHANGED <<fields, objects, eventSet, hMaps, hViews, caller, arg, lId,
                   lPort, lChannel, hist, readers, others, life, net>>

\* Lines 217-225: the write completes, then the terminator is checked.
enterWriteEnd ==
    /\ pc = "enter_write2"
    /\ shm' = setValue(shm, dumps(lPort, chars(lChannel)))
    /\ pc' = IF terminatorFits(shm') THEN "enter_build" ELSE "enter_abort"
    /\ did(<<"buffer.value">>)
    /\ UNCHANGED <<fields, objects, eventSet, hMaps, hViews, caller, arg, lId,
                   lPort, lChannel, call, raised, nextId, issued, built, raises, readers, others, life, net>>

\* Lines 226-236, except ValueError: unmap, close the handle, close the server.
enterAbort ==
    /\ pc = "enter_abort"
    /\ hViews' = hViews \ {lId}
    /\ hMaps' = hMaps \ {lId}
    /\ shm' = released(shm, hMaps', hViews', rMapFile, rView)
    /\ servers' = {s \in servers : s.id # sdServer}
    /\ clients' = serverClosed(clients, sdServer)
    /\ sdServer' = NoId
    /\ did(<<"UnmapViewOfFile", "closeHandle", "sdServer.close">>)
    /\ pc' = "return" /\ clearFrame
    /\ UNCHANGED <<followerSession, sdRelay, sdBridge, mapFile, bufferAddress,
                   relays, bridges, dispHook, eventSet, call, raised, nextId,
                   issued, built, raises, readers, others, life, threads>>

\* Line 255 with a transport kept from the first session in place of the
\* current session's.
BridgeTransportStale(id, session) == <<id, transport("s1")>>

\* Line 255, bridge.BridgeTransport(self.followerSession.transport, self.sdRelay):
\* the bridge id couples the session's transport with the relay transport id.
BridgeTransport(id, session) == <<id, transport(session)>>

\* Lines 238-261: the server thread, the relay transport and its hooks, the
\* bridge, the relay thread, and the mapping stored in the handler.
enterBuild ==
    /\ pc = "enter_build"
    /\ sdRelay' = lId
    /\ relays' = relays \cup {lId}
    /\ dispHook' = dispHook \cup {transport(followerSession)}
    /\ sdBridge' = lId
    /\ bridges' = bridges \cup {BridgeTransport(lId, followerSession)}
    /\ mapFile' = lId /\ bufferAddress' = lId
    /\ built' = built \cup {lId}
    /\ threads' = threads \cup {AcceptLoop(lId), ReadLoop(lId)}
    /\ did(<<"RelayTransport", "registerInbound", "BridgeTransport">>)
    /\ pc' = "enter_signal"
    /\ UNCHANGED <<followerSession, sdServer, servers, ipc, caller, arg, lId,
                   lPort, lChannel, call, raised, nextId, issued, raises,
                   readers, others, life, clients>>

\* Lines 262-265: SetEvent.
enterSignal ==
    /\ pc = "enter_signal"
    /\ eventSet' = TRUE
    /\ did(<<"SetEvent">>)
    /\ pc' = "return" /\ clearFrame
    /\ leftSince' = noted(leftSince, "no")
    /\ rStarted' = [r \in DOMAIN rStarted |->
                       IF rStarted[r] = "left" THEN "entered" ELSE rStarted[r]]
    /\ UNCHANGED <<fields, objects, shm, hMaps, hViews, call, raised, nextId, issued, built, raises, readers, modules, life, net>>

(***************************************************************************)
(* leaveSecureDesktop, lines 267-306.                                      *)
(***************************************************************************)
\* Lines 270-272 left out: the teardown runs on every call.
alwaysCleanUp == FALSE

\* Lines 270-272: nothing to clean up without a relay server.
nothingToCleanUp == sdServer = NoId

\* Lines 274-284 with the relay server closed before the bridge is disconnected.
teardownCallsServerFirst ==
    <<"sdServer.close", "sdBridge.disconnect", "sdRelay.close",
      "unregisterInbound", "setDisplaySize">>

\* Lines 282-284 left out: the relay transport is not closed.
teardownCallsRelayOpen ==
    <<"sdBridge.disconnect", "sdServer.close", "unregisterInbound", "setDisplaySize">>

\* The calls of collaborators in lines 274-291, in the order of the code.
teardownCalls ==
    <<"sdBridge.disconnect", "sdServer.close", "sdRelay.close",
      "unregisterInbound", "setDisplaySize">>

\* The condition under which the code makes a teardown call.
applies(name) ==
    CASE name = "sdBridge.disconnect" -> sdBridge # NoId
      [] name = "sdServer.close" -> sdServer # NoId
      [] name = "sdRelay.close" -> sdRelay # NoId
      [] OTHER -> hasFollowerTransport

\* The teardown calls among the first n of the order that are made.
RECURSIVE callsMade(_)
callsMade(n) ==
    IF n = 0 THEN <<>>
    ELSE callsMade(n - 1)
         \o (IF applies(teardownCalls[n]) THEN <<teardownCalls[n]>> ELSE <<>>)

\* Whether name is among the first n calls of the order and is made.
made(name, n) == \E i \in 1..n : teardownCalls[i] = name /\ applies(name)

\* The position after leaveSecureDesktop: back in the setter or in the
\* terminate that called it, or at the end of the handler call.
afterLeave ==
    CASE caller = "setter" -> "setter_move"
      [] caller = "terminate" -> "terminate_close"
      [] OTHER -> "return"

\* Lines 267-272, called by _onSecureDesktopChange(False).
leaveSecureDesktop ==
    /\ pc = "idle"
    /\ begin("leave")
    /\ pc' = IF nothingToCleanUp THEN "return" ELSE "leave_teardown"
    /\ leftSince' = IF nothingToCleanUp THEN noted(leftSince, "yes") ELSE leftSince
    /\ UNCHANGED <<fields, objects, ipc, caller, arg, lId, lPort, lChannel,
                   nextId, issued, built, raises, readers, modules, rStarted,
                   life, net>>

\* Lines 274-291: the bridge is disconnected, the server and the relay are
\* closed, the follower transport's hook is unregistered and the display size
\* resynchronised.  Nothing in leaveSecureDesktop or in its callers catches an
\* exception of these calls: the call that raises (the one after the first n)
\* ends the handler call, with the calls before it made.
leaveTeardown ==
    /\ pc = "leave_teardown"
    /\ \E n \in 0..Len(teardownCalls) :
         /\ n < Len(teardownCalls) =>
                applies(teardownCalls[n + 1]) /\ raises < MaxRaises
         /\ did(callsMade(n))
         /\ IF made("sdBridge.disconnect", n)
            THEN bridges' = {b \in bridges : b[1] # sdBridge} /\ sdBridge' = NoId
            ELSE UNCHANGED <<bridges, sdBridge>>
         /\ IF made("sdServer.close", n)
            THEN servers' = {x \in servers : x.id # sdServer} /\ sdServer' = NoId
            ELSE UNCHANGED <<servers, sdServer>>
         /\ IF made("sdRelay.close", n)
            THEN relays' = relays \ {sdRelay} /\ sdRelay' = NoId
            ELSE UNCHANGED <<relays, sdRelay>>
         /\ clients' =
                LET cs == IF made("sdServer.close", n)
                          THEN serverClosed(clients, sdServer) ELSE clients
                IN IF made("sdRelay.close", n) THEN relayClosed(cs, sdRelay) ELSE cs
         /\ IF made("unregisterInbound", n)
            THEN dispHook' = dispHook \ {transport(followerSession)}
            ELSE UNCHANGED dispHook
         /\ IF n < Len(teardownCalls)
            THEN /\ raised' = TRUE /\ raises' = raises + 1
                 /\ pc' = "return" /\ clearFrame
            ELSE /\ UNCHANGED <<raised, raises>>
                 /\ pc' = "leave_reset"
                 /\ UNCHANGED <<caller, arg, lId, lPort, lChannel>>
    /\ UNCHANGED <<followerSession, mapFile, bufferAddress, ipc, call, nextId, issued,
                   built, readers, others, life, threads>>

\* Lines 293-296: ResetEvent.
leaveReset ==
    /\ pc = "leave_reset"
    /\ eventSet' = FALSE
    /\ did(<<"ResetEvent">>)
    /\ pc' = "leave_unmap"
    /\ UNCHANGED <<fields, objects, shm, hMaps, hViews, caller, arg, lId, lPort,
                   lChannel, call, raised, nextId, issued, built, raises, readers, others, life, net>>

\* Lines 297-306: the view is unmapped and the handle closed, each if held.
leaveUnmap ==
    /\ pc = "leave_unmap"
    /\ hViews' = hViews \ {bufferAddress}
    /\ hMaps' = hMaps \ {mapFile}
    /\ shm' = released(shm, hMaps', hViews', rMapFile, rView)
    /\ bufferAddress' = NoId /\ mapFile' = NoId
    /\ did((IF bufferAddress # NoId THEN <<"UnmapViewOfFile">> ELSE <<>>)
           \o (IF mapFile # NoId THEN <<"closeHandle">> ELSE <<>>))
    /\ pc' = afterLeave
    /\ IF pc' = "return" THEN clearFrame
       ELSE UNCHANGED <<caller, arg, lId, lPort, lChannel>>
    /\ leftSince' = noted(leftSince, "yes")
    /\ UNCHANGED <<followerSession, sdServer, sdRelay, sdBridge, objects,
                   eventSet, call, raised, nextId, issued, built, raises, readers,
                   modules, rStarted, life, net>>

(***************************************************************************)
(* The followerSession setter, lines 143-162.                              *)
(***************************************************************************)
\* session.transport.registerInbound on a session without a transport raises
\* AttributeError, after the field was assigned.
registerRaises(session) == session # None /\ transport(session) = None

\* Lines 154-162: the hook moves from the old session's transport to the new
\* one's, and the field is assigned.
moveTo(session) ==
    /\ followerSession' = session
    /\ dispHook' = (IF hasFollowerTransport
                      THEN dispHook \ {transport(followerSession)}
                      ELSE dispHook)
                    \cup (IF session # None /\ transport(session) # None
                          THEN {transport(session)} ELSE {})
    /\ did((IF hasFollowerTransport THEN <<"unregisterInbound">> ELSE <<>>)
           \o (IF session # None /\ transport(session) # None
               THEN <<"registerInbound">> ELSE <<>>))
    /\ raised' = registerRaises(session)

\* Lines 146-148 left out: no session is taken for the current one.
neverSameSession(session) == FALSE

\* Lines 146-148: the session given equals the current one.
sameSession(session) == followerSession = session

\* Lines 143-162 without a relay server running: an equal session is skipped,
\* another one is assigned.
setFollowerSession ==
    /\ pc = "idle"
    /\ sdServer = NoId
    /\ call' = "setter"
    /\ \E session \in Sessions \cup {None} :
         IF sameSession(session)
         THEN ops' = <<>> /\ raised' = FALSE /\ UNCHANGED <<followerSession, dispHook>>
         ELSE ops = <<>> /\ moveTo(session)   \* no call is on record at "idle"
    /\ pc' = "return"
    /\ UNCHANGED <<sdServer, sdRelay, sdBridge, mapFile, bufferAddress, servers,
                   relays, bridges, ipc, caller, arg, lId, lPort, lChannel,
                   nextId, issued, built, raises, readers, others, life, net>>

\* Lines 151-152 left out: the setter goes straight to the subscriptions.
setterSkipsLeave == "setter_move"

\* Lines 151-152: with a relay server running the setter calls
\* leaveSecureDesktop, whose guard then passes, before anything else.
setterCallsLeave == "leave_teardown"

\* Lines 143-152 with a relay server running: an equal session is skipped,
\* for another one leaveSecureDesktop is called first.
setFollowerSessionActive ==
    /\ pc = "idle"
    /\ sdServer # NoId
    /\ begin("setter")
    /\ \E session \in Sessions \cup {None} :
         IF sameSession(session)
         THEN pc' = "return" /\ UNCHANGED <<caller, arg>>
         ELSE caller' = "setter" /\ arg' = session /\ pc' = setterCallsLeave
    /\ UNCHANGED <<fields, objects, ipc, lId, lPort, lChannel, nextId, issued, built,
                   raises, readers, others, life, net>>

\* Lines 154-162, after the leaveSecureDesktop the setter called.
setterMove ==
    /\ pc = "setter_move"
    /\ moveTo(arg)
    /\ pc' = "return" /\ clearFrame
    /\ UNCHANGED <<sdServer, sdRelay, sdBridge, mapFile, bufferAddress,
                   servers, relays, bridges, ipc, call, nextId, issued, built, raises,
                   readers, others, life, net>>

(***************************************************************************)
(* initializeSecureDesktop, lines 308-369, run by a copy started inside    *)
(* the secure desktop.                                                     *)
(***************************************************************************)
handlerState == <<fields, objects, frame, hist, life, net, modules>>
handlerVars == <<handlerState, staleness>>

\* Lines 316-325: OpenFileMapping finds the mapping only while it exists;
\* a mapping that cannot be viewed is closed again.
initializeSecureDesktop(r) ==
    /\ rpc[r] = "idle"
    /\ IF ~mappingExists(hMaps, hViews, rMapFile, rView)
       THEN /\ rpc' = [rpc EXCEPT ![r] = "done"]
            /\ rResult' = [rResult EXCEPT ![r] = NoConnection("open")]
            /\ UNCHANGED <<rMapFile, rView>>
       ELSE \E mapped \in BOOLEAN :
            IF mapped
            THEN /\ rMapFile' = [rMapFile EXCEPT ![r] = TRUE]
                 /\ rView' = [rView EXCEPT ![r] = TRUE]
                 /\ rpc' = [rpc EXCEPT ![r] = "wait"]
                 /\ UNCHANGED rResult
            ELSE /\ rpc' = [rpc EXCEPT ![r] = "done"]
                 /\ rResult' = [rResult EXCEPT ![r] = NoConnection("open")]
                 /\ UNCHANGED <<rMapFile, rView>>
    /\ rStarted' = [rStarted EXCEPT
                       ![r] = noted(@, IF leftSince = "yes" THEN "left" ELSE "other")]
    /\ UNCHANGED <<handlerState, leftSince, ipc>>

\* Line 107 with bManualReset True: a satisfied wait leaves the event signalled.
staysSignalled == TRUE

\* Line 107, CreateEvent(None, False, False, name): bManualReset is False, so
\* the wait that the event satisfies resets it.
waitSatisfied == FALSE

\* Line 326 with the result of the wait ignored: the read follows in any case.
waitIgnored == TRUE

\* Line 326: WaitForSingleObject returns WAIT.OBJECT_0 only for a signalled event.
waitSucceeds == eventSet

\* Lines 326 and 336: WaitForSingleObject returns WAIT.OBJECT_0.
waitObject0(r) ==
    /\ rpc[r] = "wait"
    /\ waitSucceeds
    /\ eventSet' = waitSatisfied
    /\ rpc' = [rpc EXCEPT ![r] = "read"]
    /\ UNCHANGED <<handlerVars, shm, hMaps, hViews, rMapFile, rView, rResult>>

\* The handles a reader still holds when a wait that did not succeed returns:
\* lines 327-335 return before the try statement whose finally clause closes them.
heldAfterFailedWait == TRUE

\* Lines 327-329: the event was not signalled within 2000 ms.
waitTimeout(r) ==
    /\ rpc[r] = "wait"
    /\ ~eventSet
    /\ rpc' = [rpc EXCEPT ![r] = "done"]
    /\ rResult' = [rResult EXCEPT ![r] = NoConnection("wait")]
    /\ rMapFile' = [rMapFile EXCEPT ![r] = heldAfterFailedWait]
    /\ rView' = [rView EXCEPT ![r] = heldAfterFailedWait]
    /\ shm' = released(shm, hMaps, hViews, rMapFile', rView')
    /\ UNCHANGED <<handlerVars, eventSet, hMaps, hViews>>

\* Lines 330-335: WAIT.FAILED, or a value that is none of the three.
waitFailed(r) ==
    /\ rpc[r] = "wait"
    /\ rpc' = [rpc EXCEPT ![r] = "done"]
    /\ rResult' = [rResult EXCEPT ![r] = NoConnection("wait")]
    /\ rMapFile' = [rMapFile EXCEPT ![r] = heldAfterFailedWait]
    /\ rView' = [rView EXCEPT ![r] = heldAfterFailedWait]
    /\ shm' = released(shm, hMaps, hViews, rMapFile', rView')
    /\ UNCHANGED <<handlerVars, eventSet, hMaps, hViews>>

\* localLib.localListeningSocketExists(port, processImageName): a socket
\* listens on the port in a process of the same image.
localListeningSocketExists(port) == \E s \in servers : s.port = port

\* Lines 336-358 without lines 346-349: the port is taken from the buffer as
\* it is, whether or not a socket listens on it.
tryBlockUnverified(text, socketAllowed) ==
    LET data == loads(text) IN
    IF ~data.ok THEN Raised("JSONDecodeError")
    ELSE IF Len(data.val) # 2 THEN Raised("ValueError")
    ELSE IF ~socketAllowed THEN Raised("OSError")
    ELSE ConnectionInfo(data.val[1].v, data.val[2].v)

\* Lines 336-358, the try block: json.loads, the unpacking into port and
\* channel, the test socket, the listening-socket check.  The outcome is the
\* returned ConnectionInfo or the exception raised.
tryBlock(text, socketAllowed) ==
    LET data == loads(text) IN
    IF ~data.ok THEN Raised("JSONDecodeError")
    ELSE IF Len(data.val) # 2 THEN Raised("ValueError")
    ELSE IF ~socketAllowed THEN Raised("OSError")
    ELSE IF data.val[1].kind # "int" THEN Raised("ArgumentError")
    ELSE IF ~localListeningSocketExists(data.val[1].v) THEN Raised("RuntimeError")
    ELSE ConnectionInfo(data.val[1].v, data.val[2].v)

\* Line 360 as "except ValueError": only the decoding errors are handled
\* (json.JSONDecodeError is a ValueError).
exceptValueError(outcome) ==
    IF outcome.kind = "raised" /\ outcome.exc \in {"JSONDecodeError", "ValueError"}
    THEN NoConnection("try") ELSE outcome

\* Lines 360-362, except Exception: every exception of the try block is
\* logged and None is returned.
exceptException(outcome) ==
    IF outcome.kind = "raised" THEN NoConnection("try") ELSE outcome

\* Lines 336-369: the try statement reads the buffer with wstring_at and
\* validates what it read; its finally clause unmaps and closes.
readAndValidate(r) ==
    /\ rpc[r] = "read"
    /\ \E socketAllowed \in BOOLEAN :
         rResult' = [rResult EXCEPT
                        ![r] = exceptException(tryBlock(wstring_at(shm), socketAllowed))]
    /\ rMapFile' = [rMapFile EXCEPT ![r] = FALSE]
    /\ rView' = [rView EXCEPT ![r] = FALSE]
    /\ shm' = released(shm, hMaps, hViews, rMapFile', rView')
    /\ rpc' = [rpc EXCEPT ![r] = "done"]
    /\ UNCHANGED <<handlerVars, eventSet, hMaps, hViews>>

\* The copy ends with the secure desktop: the OS closes the handles it still
\* holds.  Another copy may be started later.
readerExit(r) ==
    /\ rpc[r] = "done"
    /\ rpc' = [rpc EXCEPT ![r] = "idle"]
    /\ rResult' = [rResult EXCEPT ![r] = Pending]
    /\ rMapFile' = [rMapFile EXCEPT ![r] = FALSE]
    /\ rView' = [rView EXCEPT ![r] = FALSE]
    /\ shm' = released(shm, hMaps, hViews, rMapFile', rView')
    /\ rStarted' = [rStarted EXCEPT ![r] = noted(@, "other")]
    /\ UNCHANGED <<handlerState, leftSince, eventSet, hMaps, hViews>>

\* The ended call returns to the code that made it: the handler is ready
\* for its next call.
callReturns ==
    /\ pc = "return"
    /\ pc' = "idle"
    /\ call' = "none" /\ ops' = <<>> /\ raised' = FALSE
    /\ UNCHANGED <<fields, objects, ipc, caller, arg, lId, lPort, lChannel,
                   nextId, issued, built, raises, readers, others, life, net>>

\* A step of the handler.
handlerStep ==
    \/ callReturns
    \/ enterSecureDesktop
    \/ enterStartServer
    \/ enterWrite
    \/ enterWriteEnd
    \/ enterAbort
    \/ enterBuild
    \/ enterSignal
    \/ leaveSecureDesktop
    \/ leaveTeardown
    \/ leaveReset
    \/ leaveUnmap
    \/ setFollowerSession
    \/ setFollowerSessionActive
    \/ setterMove

\* A step of the copy r inside the secure desktop.
readerStep(r) ==
    \/ initializeSecureDesktop(r)
    \/ waitObject0(r)
    \/ waitTimeout(r)
    \/ waitFailed(r)
    \/ readAndValidate(r)
    \/ readerExit(r)

Next == handlerStep \/ \E r \in OneReader : readerStep(r)

Spec == Init /\ [][Next]_vars

(***************************************************************************)
(* Properties of the handshake.                                            *)
(***************************************************************************)
\* The texts a completed write of enterSecureDesktop leaves in the buffer.
PublishedTexts ==
    {dumps(p, chars(uuid4(n, len))) :
        p \in Ports, n \in 1..(nextId - 1), len \in ChannelLens}

\* The buffer holds a complete payload and its terminator.
payloadComplete == wstring_at(shm) \in PublishedTexts /\ Len(wstring_at(shm)) < IPC_MAXLEN

\* The four parts of the handler's bundle.
allLive ==
    sdServer # NoId /\ sdRelay # NoId /\ sdBridge # NoId
        /\ mapFile # NoId /\ bufferAddress # NoId

allAbsent ==
    sdServer = NoId /\ sdRelay = NoId /\ sdBridge = NoId
        /\ mapFile = NoId /\ bufferAddress = NoId

\* Nothing of a bundle exists, in the handler's fields or outside them.
nothingAllocated ==
    allAbsent /\ servers = {} /\ relays = {} /\ bridges = {}
        /\ hMaps = {} /\ hViews = {}

\* The number of times name occurs in a sequence of calls.
RECURSIVE count(_, _)
count(name, seq) ==
    IF seq = <<>> THEN 0
    ELSE (IF Head(seq) = name THEN 1 ELSE 0) + count(name, Tail(seq))

\* C1: under every interleaving of the writer and a reader, while the event is
\* set and when a reader whose wait succeeded reads the buffer, the buffer
\* holds a complete payload with its terminator: a reader never sees the event
\* set before the payload is written and never reads a partial payload.
C1_WriteBeforeSignal ==
    (eventSet \/ \E r \in Readers : rpc[r] = "read") => payloadComplete

\* C2: for any sequence of enter, leave and reassignment, while the event is
\* set the port and token in the buffer are those of a bundle whose relay
\* server, relay transport, bridge and mapping were all built.
C2_SignalAfterBuild ==
    eventSet =>
        \E id \in built, p \in Ports, len \in ChannelLens :
            wstring_at(shm) = dumps(p, chars(uuid4(id, len)))

\* C3: when enterSecureDesktop returns from a payload that does not fit the
\* buffer, no relay server, relay transport, bridge or mapping is allocated.
C3_AbortLeavesNothing ==
    (pc = "return" /\ call = "enter" /\ count("sdServer.close", ops) = 1)
        => nothingAllocated

\* C3, where the abort is the whole story: a call that aborted with nothing
\* allocated before it.
C3_AbortReturned ==
    pc = "return" /\ call = "enter" /\ count("sdServer.close", ops) = 1
        /\ nothingAllocated

\* C4: an enterSecureDesktop call that builds a bundle sets the event exactly
\* once, a call that ends without a bundle never sets it, and a payload that
\* does not fit the buffer with its terminator never gets as far as the signal.
C4_SetOncePerPublish ==
    /\ pc \in {"enter_build", "enter_signal"}
           => Len(dumps(lPort, chars(lChannel))) + 1 <= IPC_MAXLEN
    /\ (pc = "return" /\ call = "enter")
           => count("SetEvent", ops) = count("BridgeTransport", ops)
    /\ count("SetEvent", ops) <= 1
    /\ count("BridgeTransport", ops) <= 1

\* C4: a call that built a bundle has returned, having set the event once.
C4_Published ==
    pc = "return" /\ call = "enter" /\ count("SetEvent", ops) = 1
        /\ sdServer \in built

\* C5: whenever no handler call is in progress, the relay server, the relay
\* transport, the bridge and the mapping are all live or all absent.
C5_BundleAtomic == pc = "idle" => (allLive \/ allAbsent)

\* C6: leaveSecureDesktop called with no bundle live returns at once: it makes
\* no call and changes nothing of the handler, its objects, the event or the
\* mapping.
C6_LeaveIdempotent ==
    [][(pc = "idle" /\ call' = "leave" /\ allAbsent)
          => (pc' = "return" /\ ops' = <<>> /\ ~raised'
                /\ UNCHANGED <<fields, objects, ipc>>)]_vars

\* C6: a leaveSecureDesktop call has returned without doing anything, after
\* a bundle was built and torn down.
C6_SecondLeave ==
    pc = "return" /\ call = "leave" /\ ops = <<>> /\ ~raised
        /\ built # {} /\ nothingAllocated

\* The teardown steps in the order the specification gives them.
LeaveOrder ==
    <<"sdBridge.disconnect", "sdServer.close", "sdRelay.close",
      "unregisterInbound", "setDisplaySize", "ResetEvent",
      "UnmapViewOfFile", "closeHandle">>

\* Whether the calls of seq occur in order, in this sequence, in the order.
RECURSIVE inOrder(_, _)
inOrder(seq, order) ==
    IF seq = <<>> THEN TRUE
    ELSE IF order = <<>> THEN FALSE
    ELSE IF Head(seq) = Head(order) THEN inOrder(Tail(seq), Tail(order))
    ELSE inOrder(seq, Tail(order))

\* C7: the steps leaveSecureDesktop has made are in the order bridge, relay
\* server, relay transport, display hook, display size, event reset, unmap,
\* close; a call that began with the bridge and did not fail made all of them.
C7_TeardownOrder ==
    call = "leave" =>
        /\ inOrder(ops, LeaveOrder)
        /\ (pc = "return" /\ ~raised /\ count("sdBridge.disconnect", ops) = 1)
               => ops = LeaveOrder

\* C7: leaveSecureDesktop has returned after all eight steps.
C7_TornDown == pc = "return" /\ call = "leave" /\ ops = LeaveOrder

\* C8: when leaveSecureDesktop ends, with or without a step that failed,
\* every step was made and no part of the bundle is left in the handler.
C8_TeardownExhaustive ==
    (pc = "return" /\ call = "leave" /\ (raised \/ ops # <<>>))
        => (allAbsent /\ count("ResetEvent", ops) = 1)

\* C9: when initializeSecureDesktop has returned, the copy holds neither the
\* view nor the handle of the mapping.
C9_ReleasedOnExit ==
    \A r \in Readers : rpc[r] = "done" => (~rMapFile[r] /\ ~rView[r])

\* C10: initializeSecureDesktop ends in None or in a ConnectionInfo, never in
\* an exception; it ends in None when the mapping is absent, when the wait
\* does not succeed, and when the text in the buffer cannot be validated.
C10_NeverRaises ==
    [][\A r \in Readers :
          (rpc[r] # "done" /\ rpc'[r] = "done") =>
              /\ rResult'[r].kind \in {"None", "ConnectionInfo"}
              /\ (rpc[r] = "idle" /\ ~mappingExists(hMaps, hViews, rMapFile, rView))
                     => rResult'[r].kind = "None"
              /\ rpc[r] = "wait" => rResult'[r].kind = "None"
              /\ (rpc[r] = "read" /\ tryBlock(wstring_at(shm), TRUE).kind = "raised")
                     => rResult'[r].kind = "None"]_vars

\* C10: a copy whose wait succeeded has returned None from the except clause:
\* an exception of the try block was caught.
C10_CaughtInTry ==
    \E r \in Readers : rpc[r] = "done" /\ rResult[r] = NoConnection("try")

\* C11 as the specification states it: while no writer has ever signalled the
\* event, initializeSecureDesktop returns None only from a wait that ran into
\* its timeout, never at once.
C11_NoneOnlyAfterWait ==
    \A r \in Readers :
        (rpc[r] = "done" /\ built = {}) => rResult[r] = NoConnection("wait")

\* C11: while no writer has ever signalled the event, a copy that has opened
\* the shared buffer returns None, and only from its wait on the event (the
\* timeout of 2000 ms, or a wait that failed); a copy that waits can always
\* go on, the wait ends with the signal or with the timeout.
C11_NoneAfterWaitOnceOpened ==
    /\ [](\A r \in Readers :
             rpc[r] = "wait" => ENABLED (waitObject0(r) \/ waitTimeout(r)))
    /\ [][\A r \in Readers :
             (rpc[r] \notin {"idle", "done"} /\ rpc'[r] = "done" /\ built = {})
                 => (rpc[r] = "wait" /\ rResult'[r] = NoConnection("wait"))]_vars

\* C11: a copy has returned None from its wait, with no signal ever given.
C11_TimedOut ==
    \E r \in Readers :
        rpc[r] = "done" /\ rResult[r] = NoConnection("wait") /\ built = {}

\* C12: initializeSecureDesktop returns a ConnectionInfo only from the read
\* that follows a successful wait, only when the text in the buffer decodes
\* to a pair, and only for a port on which a socket of the same process image
\* listens at that moment; it carries that port.
C12_ConnectionOnlyIfListening ==
    [][\A r \in Readers :
          (rpc[r] # "done" /\ rpc'[r] = "done"
              /\ rResult'[r].kind = "ConnectionInfo") =>
              /\ rpc[r] = "read"
              /\ LET data == loads(wstring_at(shm)) IN
                   /\ data.ok /\ Len(data.val) = 2
                   /\ data.val[1].kind = "int"
                   /\ rResult'[r].port = data.val[1].v
                   /\ localListeningSocketExists(data.val[1].v)]_vars

\* C12: a copy has returned a ConnectionInfo.
C12_Connected ==
    \E r \in Readers : rpc[r] = "done" /\ rResult[r].kind = "ConnectionInfo"

(***************************************************************************)
(* The handshake of one enterSecureDesktop call, for ports of every number *)
(* of digits and tokens of every length around the budget: the call stands *)
(* at line 215, with the mapping created and the relay server started.     *)
(***************************************************************************)
\* Ports of one to five digits.
RoundTripPorts == {1, 443, 1024, 65535}

\* Token lengths: the shortest, that of a UUID, the longest that fit with a
\* port of five digits and with one of one digit, and one that fits with none.
RoundTripLens == {1, UUID_LEN, 52, 56, 57}

RoundTripInit ==
    /\ followerSession = "s1" /\ sdServer = 1 /\ sdRelay = NoId
    /\ sdBridge = NoId /\ mapFile = NoId /\ bufferAddress = NoId
    /\ \E port \in RoundTripPorts, len \in RoundTripLens :
         /\ servers = {[id |-> 1, port |-> port, channel |-> uuid4(1, len)]}
         /\ lPort = port /\ lChannel = uuid4(1, len)
    /\ relays = {} /\ bridges = {} /\ dispHook = {transport("s1")}
    /\ eventSet = FALSE /\ shm = Zeros /\ hMaps = {1} /\ hViews = {1}
    /\ pc = "enter_write" /\ caller = "none" /\ arg = None /\ lId = 1
    /\ ops = <<"LocalRelayServer">> /\ call = "enter" /\ raised = FALSE
    /\ nextId = 2 /\ raises = 0 /\ built = {} /\ issued = <<1>>
    /\ rpc = [r \in Readers |-> "idle"]
    /\ rMapFile = [r \in Readers |-> FALSE]
    /\ rView = [r \in Readers |-> FALSE]
    /\ rResult = [r \in Readers |-> Pending]
    /\ subscribed = TRUE /\ ipcEventHandle = "open" /\ sent = <<>>
    /\ inbound = NoMessage
    /\ clients = {} /\ threads = {}
    /\ othersIdle

RoundTripNext ==
    \/ enterWrite
    \/ enterWriteEnd
    \/ enterAbort
    \/ enterBuild
    \/ enterSignal
    \/ callReturns
    \/ \E r \in OneReader : readerStep(r)

RoundTripSpec == RoundTripInit /\ [][RoundTripNext]_vars

\* C13: the buffer that enterSecureDesktop has written decodes to exactly the
\* port and the token it encoded, and a ConnectionInfo that
\* initializeSecureDesktop returns carries that port and that token, with
\* host 127.0.0.1 and insecure set.
C13_RoundTrip ==
    /\ pc \in {"enter_build", "enter_signal"} =>
           loads(wstring_at(shm))
               = [ok |-> TRUE,
                  val |-> <<[kind |-> "int", v |-> lPort],
                            [kind |-> "str", v |-> chars(lChannel)]>>]
    /\ \A r \in Readers :
           rResult[r].kind = "ConnectionInfo" =>
               \E s \in servers :
                   rResult[r] = [kind |-> "ConnectionInfo", hostname |-> "127.0.0.1",
                                 mode |-> "FOLLOWER", key |-> chars(s.channel),
                                 port |-> s.port, insecure |-> TRUE]

\* C13: a copy has returned the ConnectionInfo of the longest token that fits
\* beside a port of five digits.
C13_LongestToken ==
    \E r \in Readers :
        /\ rpc[r] = "done" /\ rResult[r].kind = "ConnectionInfo"
        /\ rResult[r].port = 65535 /\ Len(rResult[r].key) = 52

\* C14: the tokens generated over the handler's lifetime are pairwise
\* distinct, and the only generated token a listening relay server accepts is
\* the one generated for it: never that of an earlier bundle.
C14_FreshTokens ==
    /\ \A i, j \in 1..Len(issued) : i # j => issued[i] # issued[j]
    /\ \A s \in servers : \A i \in 1..Len(issued) :
           issued[i] = s.channel.n => i = s.id

\* C14: a relay server of a second enterSecureDesktop listens after the
\* bundle of the first was built and its relay server closed.
C14_SecondCycle ==
    /\ 1 \in built /\ Len(issued) = 2
    /\ \E s \in servers : s.id = 2
    /\ \A s \in servers : s.id # 1

\* C15: when the setter, given another session while a bundle is active,
\* comes to install the subscription on the new session's transport, the
\* bridge, the relay server, the relay transport and the mapping are gone from
\* the handler and the event is reset, and the hook is not yet on the new
\* transport; in the record of its calls the reset, the unmap and the close
\* precede the registration.
C15_TeardownBeforeSubscribe ==
    /\ pc = "setter_move" =>
           /\ allAbsent /\ ~eventSet
           /\ transport(arg) \notin dispHook
           /\ inOrder(<<"ResetEvent", "UnmapViewOfFile", "closeHandle">>, ops)
    /\ (call = "setter" /\ count("registerInbound", ops) = 1
            /\ count("ResetEvent", ops) = 1)
           => (inOrder(<<"ResetEvent", "UnmapViewOfFile", "closeHandle",
                         "registerInbound">>, ops)
               /\ ops[Len(ops)] = "registerInbound")

\* C15: the setter has returned after tearing the bundle down and installing
\* the subscription on another session's transport.
C15_Rebound ==
    /\ pc = "return" /\ call = "setter" /\ ~raised
    /\ count("ResetEvent", ops) = 1 /\ count("registerInbound", ops) = 1
    /\ transport(followerSession) \in dispHook

\* C16: every connected bridge is the handler's bridge, and it couples the
\* transport of the follower session attached to the handler with the
\* handler's relay transport (a bridge and the relay transport built with it
\* carry the same id).
C16_BridgeOfCurrentSession ==
    \A b \in bridges :
        /\ b[1] = sdBridge
        /\ b[1] = sdRelay
        /\ followerSession # None /\ b[2] = transport(followerSession)

\* The hook is off the old session's transport and on the new session's
\* transport, on none when the new session is None.
hookMoved(old, new, hooks) ==
    /\ transport(old) \notin hooks
    /\ transport(new) # None => transport(new) \in hooks
    /\ new = None => hooks = {}

\* C17: when a call of the followerSession setter that was given a session
\* different from the current one ends, the display-info hook is no longer on
\* the old session's transport and is on the new session's transport.
C17_HookMoves ==
    [][/\ (pc = "idle" /\ call' = "setter" /\ followerSession' # followerSession)
              => hookMoved(followerSession, followerSession', dispHook')
       /\ (caller = "setter" /\ pc' = "return")
              => hookMoved(followerSession, arg, dispHook')]_vars

\* C18: a call of the followerSession setter with the current session never
\* begins a teardown, and it returns with no call made and with the handler's
\* fields, its objects and subscriptions, the event and the buffer unchanged.
C18_SameSessionNoOp ==
    [][(pc = "idle" /\ call' = "setter") =>
          /\ caller' = "setter" => arg' # followerSession
          /\ (pc' = "return" /\ followerSession' = followerSession)
                 => (ops' = <<>> /\ ~raised'
                       /\ UNCHANGED <<fields, objects, ipc>>)]_vars

\* C18: with a bundle active, the setter was called with the current session
\* and has returned.
C18_SameSessionActive ==
    pc = "return" /\ call = "setter" /\ ops = <<>> /\ ~raised /\ allLive /\ eventSet

\* The steps of enterSecureDesktop.
enterPcs ==
    {"enter_server", "enter_write", "enter_write2", "enter_abort",
     "enter_build", "enter_signal"}

TwoReadersNext ==
    \/ enterWrite
    \/ enterWriteEnd
    \/ enterAbort
    \/ enterBuild
    \/ enterSignal
    \/ callReturns
    \/ \E r \in Readers : readerStep(r)

TwoReadersSpec == RoundTripInit /\ [][TwoReadersNext]_vars

\* C20: the event is signalled only by the SetEvent of enterSecureDesktop, and
\* every wait that succeeds takes that signal away, at a moment when no other
\* copy is past its wait or holds a connection: of two copies waiting for one
\* signal at most one obtains a connection.
C20_OneReaderPerSignal ==
    /\ [](Cardinality({r \in Readers :
                          rpc[r] = "read" \/ rResult[r].kind = "ConnectionInfo"}) <= 1)
    /\ [][/\ (~eventSet /\ eventSet') => pc = "enter_signal"
          /\ \A r \in Readers :
                 (rpc[r] = "wait" /\ rpc'[r] = "read") =>
                     /\ eventSet /\ ~eventSet'
                     /\ \A q \in Readers \ {r} :
                            rpc[q] # "read" /\ rResult[q].kind # "ConnectionInfo"]_vars

\* C20: two copies waited for the one signal; one holds a connection, the
\* other's wait ended without the signal.
C20_OneServedOneNot ==
    \E r, q \in Readers :
        /\ rpc[r] = "done" /\ rResult[r].kind = "ConnectionInfo"
        /\ rpc[q] = "done" /\ rResult[q] = NoConnection("wait")
        /\ rMapFile[q]

(***************************************************************************)
(* _onSecureDesktopChange, lines 164-173: the notification True is the     *)
(* action enterSecureDesktop, the notification False the action            *)
(* leaveSecureDesktop.  The handler is Idle when no call is in progress    *)
(* and no part of a bundle exists, Active when none is in progress and all *)
(* parts are live.                                                         *)
(***************************************************************************)
\* C21: a notification "entering" starts to build a bundle only in Idle, a
\* notification "leaving" starts to tear one down only in Active, and between
\* the calls the handler is Idle or Active: it moves only along
\* Idle -> Entering -> Active -> Leaving -> Idle.
C21_StateMachine ==
    [][/\ (pc = "idle" /\ call' = "enter" /\ pc' = "enter_server") => allAbsent
       /\ (pc = "idle" /\ call' = "leave" /\ pc' = "leave_teardown") => allLive
       /\ (pc = "return" /\ pc' = "idle" /\ call \in {"enter", "leave"})
              => (allAbsent \/ allLive)]_vars

\* C22: an enterSecureDesktop call made with no follower session or with a
\* session whose transport is absent returns at once, and every call that
\* returns at once (those two, and the calls whose CreateFileMapping or
\* MapViewOfFile fails) has made no collaborator call and leaves the
\* handler's fields, the servers, relays, bridges and subscriptions, the
\* event, the buffer and the open mappings as they were.
C22_FailedEnterChangesNothing ==
    [][(pc = "idle" /\ call' = "enter") =>
          /\ (followerSession = None \/ transport(followerSession) = None)
                 => pc' = "return"
          /\ pc' = "return"
                 => (ops' = <<>> /\ ~raised' /\ UNCHANGED <<fields, objects, ipc>>)
          /\ pc' # "return"
                 => (pc' = "enter_server" /\ UNCHANGED <<fields, objects, eventSet, shm>>)]_vars

\* C22: enterSecureDesktop has returned at once for an attached session whose
\* transport is absent.
C22_ReturnedAtOnce ==
    /\ pc = "return" /\ call = "enter" /\ ops = <<>>
    /\ followerSession # None /\ transport(followerSession) = None

(***************************************************************************)
(* The handler's life: __init__ (lines 100-117), the notifications of      *)
(* post_secureDesktopStateChange (lines 164-173), the callback             *)
(* _onLeaderDisplayChange (lines 371-381) and terminate (lines 119-137).   *)
(***************************************************************************)
\* Line 117 placed before line 107: the registration precedes CreateEvent.
registeredFirst(handle) == TRUE

\* Lines 108-117: post_secureDesktopStateChange.register is reached only when
\* CreateEvent returned a handle; otherwise RuntimeError leaves __init__.
registerReached(handle) == handle # None

\* SecureDesktopHandler.__init__, lines 100-117.
__init__ ==
    /\ pc = "new"
    /\ \E handle \in {"open", None} :
         /\ ipcEventHandle' = handle
         /\ subscribed' = registerReached(handle)
         /\ IF handle = None
            THEN pc' = "failed" /\ call' = "__init__" /\ raised' = TRUE
            ELSE pc' = "idle" /\ call' = "none" /\ raised' = FALSE
    /\ UNCHANGED <<fields, objects, ipc, caller, arg, lId, lPort, lChannel,
                   ops, nextId, raises, built, issued, readers, others, sent, inbound,
                   net>>

\* _onSecureDesktopChange, lines 164-173, called by the dispatcher while the
\* handler is registered with it.
onSecureDesktopChange(isSecureDesktop) ==
    /\ subscribed
    /\ IF isSecureDesktop THEN enterSecureDesktop ELSE leaveSecureDesktop

\* FollowerSession.leaderDisplaySizes, read in line 378.
leaderDisplaySizes(s) ==
    CASE s = "s1" -> <<40>> [] s = "s2" -> <<80>> [] OTHER -> <<>>

\* The message of lines 376-379, sent over the relay transport via.
SetDisplaySize(via, sizes) ==
    [via |-> via, type |-> "SET_DISPLAY_SIZE", sizes |-> sizes]

\* Line 374 with "or" for "and".
relayOrSession == sdRelay # NoId \/ followerSession # None

\* Line 374: a relay transport and a follower session both exist.
relayAndSession == sdRelay # NoId /\ followerSession # None

\* _onLeaderDisplayChange, lines 371-381, called for a SET_BRAILLE_INFO that
\* arrives on a transport it is registered on, or for a CLIENT_JOINED on a
\* relay transport that is not closed.
onLeaderDisplayChange ==
    /\ pc = "idle"
    /\ dispHook # {} \/ relays # {}
    /\ begin("display")
    /\ sent' = IF relayAndSession
               THEN <<SetDisplaySize(sdRelay, leaderDisplaySizes(followerSession))>>
               ELSE <<>>
    /\ pc' = "display_return"
    /\ UNCHANGED <<fields, objects, ipc, caller, arg, lId, lPort, lChannel,
                   nextId, raises, built, issued, readers, others, subscribed,
                   ipcEventHandle, inbound, net>>

\* The callback returns to the transport that called it.
displayReturns ==
    /\ pc = "display_return"
    /\ pc' = "idle"
    /\ call' = "none" /\ ops' = <<>> /\ raised' = FALSE /\ sent' = <<>>
    /\ UNCHANGED <<fields, objects, ipc, caller, arg, lId, lPort, lChannel,
                   nextId, raises, built, issued, readers, others, subscribed,
                   ipcEventHandle, inbound, net>>

\* Line 122 left out: the handler stays registered with the dispatcher.
staysRegistered == TRUE

\* Line 122: post_secureDesktopStateChange.unregister(self._onSecureDesktopChange).
unregistered == FALSE

\* terminate, lines 119-123: the handler unregisters from the dispatcher and
\* calls leaveSecureDesktop.
terminate ==
    /\ pc = "idle"
    /\ subscribed /\ ipcEventHandle = "open"
    /\ begin("terminate")
    /\ subscribed' = unregistered
    /\ caller' = "terminate"
    /\ pc' = IF nothingToCleanUp THEN "terminate_close" ELSE "leave_teardown"
    /\ UNCHANGED <<fields, objects, ipc, arg, lId, lPort, lChannel,
                   nextId, raises, built, issued, readers, others, ipcEventHandle, sent,
                   inbound, net>>

\* terminate, lines 124-137: the handle of the event is closed, then the view
\* and the handle of the mapping if the handler still holds them.
terminateClose ==
    /\ pc = "terminate_close"
    /\ ipcEventHandle' = "closed"
    /\ hViews' = hViews \ {bufferAddress}
    /\ hMaps' = hMaps \ {mapFile}
    /\ shm' = released(shm, hMaps', hViews', rMapFile, rView)
    /\ did(<<"closeHandle(event)">>
           \o (IF bufferAddress # NoId THEN <<"UnmapViewOfFile">> ELSE <<>>)
           \o (IF mapFile # NoId THEN <<"closeHandle">> ELSE <<>>))
    /\ pc' = "terminated" /\ clearFrame
    /\ UNCHANGED <<fields, objects, eventSet, call, raised, nextId, raises,
                   built, issued, readers, others, subscribed, sent, inbound,
                   net>>

\* The handler before its construction.
LifeInit ==
    /\ followerSession = None /\ sdServer = NoId /\ sdRelay = NoId
    /\ sdBridge = NoId /\ mapFile = NoId /\ bufferAddress = NoId
    /\ servers = {} /\ relays = {} /\ bridges = {} /\ dispHook = {}
    /\ eventSet = FALSE /\ shm = Zeros /\ hMaps = {} /\ hViews = {}
    /\ pc = "new" /\ caller = "none" /\ arg = None
    /\ lId = NoId /\ lPort = 0 /\ lChannel = uuid4(0, 0)
    /\ ops = <<>> /\ call = "none" /\ raised = FALSE /\ nextId = 1 /\ raises = 0
    /\ built = {} /\ issued = <<>>
    /\ rpc = [r \in Readers |-> "idle"]
    /\ rMapFile = [r \in Readers |-> FALSE]
    /\ rView = [r \in Readers |-> FALSE]
    /\ rResult = [r \in Readers |-> Pending]
    /\ subscribed = FALSE /\ ipcEventHandle = "unset" /\ sent = <<>>
    /\ inbound = NoMessage
    /\ clients = {} /\ threads = {}
    /\ othersIdle

\* The handler from its construction to its termination: the transitions come
\* as notifications, the other calls as under Spec.
LifeNext ==
    \/ __init__
    \/ \E isSecureDesktop \in BOOLEAN : onSecureDesktopChange(isSecureDesktop)
    \/ callReturns
    \/ enterStartServer
    \/ enterWrite
    \/ enterWriteEnd
    \/ enterAbort
    \/ enterBuild
    \/ enterSignal
    \/ leaveTeardown
    \/ leaveReset
    \/ leaveUnmap
    \/ setFollowerSession
    \/ setFollowerSessionActive
    \/ setterMove
    \/ onLeaderDisplayChange
    \/ displayReturns
    \/ terminate
    \/ terminateClose

LifeSpec == LifeInit /\ [][LifeNext]_vars

\* C23: a call of _onLeaderDisplayChange made while a relay transport and a
\* follower session both exist sends exactly one message, a SET_DISPLAY_SIZE
\* with that session's leaderDisplaySizes, over the handler's relay transport,
\* which is not closed; a call made while either is missing sends nothing;
\* no call changes the handler's fields, the servers, relays, bridges and
\* subscriptions, the event or the mapping, and nothing is sent outside a call.
C23_DisplaySizeForwarded ==
    /\ [](pc # "display_return" => sent = <<>>)
    /\ [][(pc = "idle" /\ call' = "display") =>
             /\ pc' = "display_return"
             /\ UNCHANGED <<fields, objects, ipc, subscribed, ipcEventHandle>>
             /\ IF sdRelay # NoId /\ followerSession # None
                THEN /\ sent' = <<SetDisplaySize(sdRelay,
                                                 leaderDisplaySizes(followerSession))>>
                     /\ sdRelay \in relays
                ELSE sent' = <<>>]_vars

\* C23: the callback has sent the display sizes of the session s2 over the
\* relay transport of a live bundle.
C23_SizesSent ==
    /\ pc = "display_return" /\ allLive /\ followerSession = "s2"
    /\ sent = <<SetDisplaySize(sdRelay, <<80>>)>>

\* C23: the callback has run with a session attached and no relay transport,
\* and has sent nothing.
C23_NothingSent ==
    pc = "display_return" /\ followerSession # None /\ sdRelay = NoId /\ sent = <<>>

\* C24: once terminate has ended, the handler is not registered with the
\* dispatcher of the desktop transitions, it has not reacted to a notification
\* since, and no relay server, relay transport, bridge or mapping of it is live.
C24_TerminateReleasesAll ==
    (call = "terminate" /\ pc \in {"return", "terminated"})
        => (~subscribed /\ nothingAllocated)

\* C24: terminate has ended without an exception, for a handler that had built
\* a bundle.
C24_Terminated ==
    pc = "terminated" /\ call = "terminate" /\ ~raised /\ built # {}

\* C25: when CreateEvent gives no handle, the construction has ended in an
\* error and nothing follows it: the handler is not registered with the
\* dispatcher of the desktop transitions, it holds no session and no hook, and
\* no relay server, relay transport, bridge or mapping exists; a construction
\* ends in an error in that case only.
C25_FailedConstruction ==
    /\ ipcEventHandle = None =>
           /\ pc = "failed" /\ raised /\ call = "__init__"
           /\ ~subscribed
           /\ nothingAllocated /\ followerSession = None /\ dispHook = {}
           /\ ~eventSet
    /\ pc = "failed" => ipcEventHandle = None

\* C25: a construction has failed.
C25_ConstructionFailed == pc = "failed" /\ ipcEventHandle = None /\ raised

(***************************************************************************)
(* The bridge between the follower session's transport and the relay       *)
(* transport (BridgeTransport, built in line 255, disconnected in line     *)
(* 275): a catch-all inbound hook on each of its two transports sends      *)
(* every message that transport receives on the other one.                 *)
(***************************************************************************)
\* The messages that arrive: a type tag and the fields, as pairs of key and value.
Messages ==
    {[type |-> "session-joined", fields |-> <<<<"id", "x">>>>],
     [type |-> "display-size-changed", fields |-> <<<<"sizes", "40">>>>]}

\* The transports on which a message can arrive: those of the sessions, and
\* the relay transports that are not closed.
receiving == {"t1", "t2"} \cup {relayName(id) : id \in relays}

\* The bridge b has its hook on the transport x.
hooked(b, x) == b[2] = x \/ relayName(b[1]) = x

\* The other transport of the bridge b.
peer(b, x) == IF b[2] = x THEN relayName(b[1]) ELSE b[2]

\* The hook of the bridge b, called for the message m received on x:
\* peer.send(type, **fields).
forward(b, x, m) ==
    [by |-> b[1], via |-> peer(b, x), type |-> m.type, fields |-> m.fields]

\* The sends of the hooks on x of the connected bridges with the ids 1..n, in
\* the order of their registration.
RECURSIVE forwards(_, _, _)
forwards(x, m, n) ==
    IF n = 0 THEN <<>>
    ELSE forwards(x, m, n - 1)
         \o (IF \E b \in bridges : b[1] = n /\ hooked(b, x)
             THEN <<forward(CHOOSE b \in bridges : b[1] = n /\ hooked(b, x), x, m)>>
             ELSE <<>>)

\* A transport receives the message m and calls the hooks registered on it.
dispatch ==
    /\ pc = "idle"
    /\ begin("dispatch")
    /\ \E x \in receiving, m \in Messages :
         /\ inbound' = [on |-> x, msg |-> m]
         /\ sent' = forwards(x, m, nextId - 1)
    /\ pc' = "dispatch_return"
    /\ UNCHANGED <<fields, objects, ipc, caller, arg, lId, lPort, lChannel,
                   nextId, raises, built, issued, readers, others, subscribed,
                   ipcEventHandle, net>>

\* The hooks have returned.
dispatchReturns ==
    /\ pc = "dispatch_return"
    /\ pc' = "idle"
    /\ call' = "none" /\ ops' = <<>> /\ raised' = FALSE
    /\ sent' = <<>> /\ inbound' = NoMessage
    /\ UNCHANGED <<fields, objects, ipc, caller, arg, lId, lPort, lChannel,
                   nextId, raises, built, issued, readers, others, subscribed,
                   ipcEventHandle, net>>

BridgeNext == handlerStep \/ dispatch \/ dispatchReturns

BridgeSpec == Init /\ [][BridgeNext]_vars

\* The ids of the connected bridges.
connected == {b[1] : b \in bridges}

\* C26: the bridge that enterSecureDesktop builds couples the transport of
\* the follower session with the relay transport built with it; a message
\* received on either transport of a connected bridge is sent once on the
\* other, with its type and fields as received, and nothing else is sent; the
\* disconnect of leaveSecureDesktop takes the handler's bridge out of the
\* connected ones, a bridge once disconnected stays disconnected and forwards
\* nothing, and disconnecting it again changes nothing.
C26_BridgeForwards ==
    /\ [](pc = "dispatch_return" =>
            /\ \A b \in bridges :
                 /\ inbound.on = b[2] =>
                        \E i \in 1..Len(sent) :
                            sent[i] = [by |-> b[1], via |-> relayName(b[1]),
                                       type |-> inbound.msg.type,
                                       fields |-> inbound.msg.fields]
                 /\ inbound.on = relayName(b[1]) =>
                        \E i \in 1..Len(sent) :
                            sent[i] = [by |-> b[1], via |-> b[2],
                                       type |-> inbound.msg.type,
                                       fields |-> inbound.msg.fields]
            /\ \A i \in 1..Len(sent) :
                 /\ sent[i].by \in connected
                 /\ sent[i].type = inbound.msg.type
                 /\ sent[i].fields = inbound.msg.fields
                 /\ sent[i].via # inbound.on
            /\ Len(sent) = Cardinality({b \in bridges :
                                          inbound.on \in {b[2], relayName(b[1])}}))
    /\ [][/\ (pc = "enter_build" /\ pc' # pc) =>
                /\ bridges' = bridges \cup {<<sdBridge', transport(followerSession)>>}
                /\ sdBridge' = sdRelay' /\ sdRelay' \in relays'
                /\ transport(followerSession) # None
          /\ (sdBridge # NoId /\ sdBridge' = NoId) =>
                (sdBridge \in connected /\ sdBridge \notin connected')
          /\ \A id \in built : id \notin connected => id \notin connected'
          /\ \A id \in built \ connected :
                {b \in bridges : b[1] # id} = bridges]_vars

\* C26: with a bundle live for the session s2, a message has arrived on that
\* session's transport and the bridge has sent it on the relay transport.
C26_ForwardedToRelay ==
    /\ pc = "dispatch_return" /\ allLive /\ followerSession = "s2"
    /\ inbound.on = "t2"
    /\ sent = <<[by |-> sdBridge, via |-> relayName(sdRelay),
                 type |-> inbound.msg.type, fields |-> inbound.msg.fields]>>

\* C26: after leaveSecureDesktop has disconnected the bridge, a message has
\* arrived on the follower transport and nothing was sent.
C26_NotForwardedAfterLeave ==
    /\ pc = "dispatch_return" /\ built # {} /\ nothingAllocated
    /\ inbound.on = "t1" /\ followerSession = "s1" /\ sent = <<>>

(***************************************************************************)
(* The relay server and the relay transport of one bundle, from line 238   *)
(* on: the accept loop and the read loop on their threads, the clients of  *)
(* the server, the messages it broadcasts and the messages the relay       *)
(* transport dispatches, until leaveSecureDesktop closes both.             *)
(***************************************************************************)
\* Line 245 with a token of its own in place of the server's.
relayTokenOwn(s) == uuid4(0, s.channel.len)

\* Lines 212 and 245: the relay transport is given the channel that the relay
\* server s was started with as its password.
relayToken(s) == s.channel

\* The clients that are not the handler's: the copy inside the secure desktop
\* and one more local process.
OutsideClients == {"sd", "c3"}

\* A token no relay server was started with.
WrongToken == uuid4(0, UUID_LEN)

\* The server authenticates a client that presents the server's token.
authenticates(s, token) == token = s.channel

Client(name, s, token) ==
    [name |-> name, server |-> s.id, token |-> token,
     authed |-> authenticates(s, token)]

\* The relay servers whose accept loop runs.
accepting == {s \in servers : AcceptLoop(s.id) \in threads}

\* sdRelay.run connects the relay transport to its relay server.
relayConnects ==
    /\ \E s \in accepting :
         /\ s.id \in relays /\ ReadLoop(s.id) \in threads
         /\ \A c \in clients : c.name # relayName(s.id)
         /\ clients' = clients \cup {Client(relayName(s.id), s, relayToken(s))}
    /\ UNCHANGED <<fields, objects, ipc, frame, hist, readers, others, life, threads>>

\* Another client connects and presents a token.
clientConnects ==
    /\ \E name \in OutsideClients, s \in accepting :
         \E token \in {s.channel, WrongToken} :
            /\ \A c \in clients : c.name # name
            /\ clients' = clients \cup {Client(name, s, token)}
    /\ UNCHANGED <<fields, objects, ipc, frame, hist, readers, others, life, threads>>

\* The server disconnects a client that has not authenticated within the
\* grace period.
graceExpires ==
    /\ \E c \in clients : ~c.authed /\ clients' = clients \ {c}
    /\ UNCHANGED <<fields, objects, ipc, frame, hist, readers, others, life, threads>>

\* A client that is not the handler's closes its connection.
clientLeaves ==
    /\ \E c \in clients : c.name \in OutsideClients /\ clients' = clients \ {c}
    /\ UNCHANGED <<fields, objects, ipc, frame, hist, readers, others, life, threads>>

\* The order in which the server goes through its clients.
ClientOrder == RelayNames \o <<"sd", "c3">>

\* The deliveries of the message m of the client c, to the clients among the
\* first n of the order: the other authenticated clients of c's server.
RECURSIVE broadcast(_, _, _)
broadcast(c, m, n) ==
    IF n = 0 THEN <<>>
    ELSE broadcast(c, m, n - 1)
         \o (IF \E d \in clients :
                   /\ d.name = ClientOrder[n] /\ d.server = c.server
                   /\ d.authed /\ d.name # c.name
             THEN <<[to |-> ClientOrder[n], type |-> m.type, fields |-> m.fields]>>
             ELSE <<>>)

\* The server receives a message from one of its clients.
serverReceives ==
    /\ inbound = NoMessage
    /\ \E c \in clients, m \in Messages :
         /\ inbound' = [on |-> c.name, msg |-> m, at |-> "server"]
         /\ sent' = IF c.authed THEN broadcast(c, m, Len(ClientOrder)) ELSE <<>>
    /\ UNCHANGED <<fields, objects, ipc, frame, hist, readers, others, subscribed,
                   ipcEventHandle, net>>

\* Line 255 placed before line 249: the bridge's hook is registered first.
bridgeHookFirst == <<"BridgeTransport", "_onLeaderDisplayChange">>

\* Lines 249 and 255: the handlers registered on the relay transport, in the
\* order of their registration.
registrations == <<"_onLeaderDisplayChange", "BridgeTransport">>

\* Whether the handler h of the relay transport id is registered for the
\* type: _onLeaderDisplayChange for CLIENT_JOINED (line 249), the hook of the
\* bridge for every type while the bridge is connected.
registeredFor(id, type, h) ==
    IF h = "_onLeaderDisplayChange" THEN type = "client-joined"
    ELSE id \in connected

\* The handlers among the first n registrations that are called for the type.
RECURSIVE handlersFor(_, _, _)
handlersFor(id, type, n) ==
    IF n = 0 THEN <<>>
    ELSE handlersFor(id, type, n - 1)
         \o (IF registeredFor(id, type, registrations[n])
             THEN <<registrations[n]>> ELSE <<>>)

\* The messages a relay transport receives from its server.
RelayMessages == Messages \cup {[type |-> "client-joined", fields |-> <<>>]}

\* The read loop of a relay transport decodes a message and calls the handlers
\* registered for its type, in the order of their registration; a handler
\* that fails is logged and the next one is called.
relayDispatch ==
    /\ inbound = NoMessage
    /\ \E id \in relays, m \in RelayMessages :
         /\ ReadLoop(id) \in threads
         /\ \E c \in clients : c.name = relayName(id) /\ c.authed
         /\ inbound' = [on |-> relayName(id), msg |-> m, at |-> "transport"]
         /\ LET hs == handlersFor(id, m.type, Len(registrations)) IN
            \E failing \in SUBSET {hs[i] : i \in 1..Len(hs)} :
               sent' = [i \in 1..Len(hs) |->
                           [handler |-> hs[i], failed |-> hs[i] \in failing]]
    /\ UNCHANGED <<fields, objects, ipc, frame, hist, readers, others, subscribed,
                   ipcEventHandle, net>>

\* The message has been handled: the loop that received it goes on.
handled ==
    /\ inbound # NoMessage
    /\ inbound' = NoMessage /\ sent' = <<>>
    /\ UNCHANGED <<fields, objects, ipc, frame, hist, readers, others, subscribed,
                   ipcEventHandle, net>>

\* The accept loop ends when the listening socket of its server is closed.
acceptLoopExits ==
    /\ \E id \in 1..(nextId - 1) :
         /\ AcceptLoop(id) \in threads
         /\ \A s \in servers : s.id # id
         /\ threads' = threads \ {AcceptLoop(id)}
    /\ UNCHANGED <<fields, objects, ipc, frame, hist, readers, others, life, clients>>

\* The read loop ends when the socket of its relay transport is closed.
readLoopExits ==
    /\ \E id \in 1..(nextId - 1) :
         /\ ReadLoop(id) \in threads
         /\ id \notin relays
         /\ threads' = threads \ {ReadLoop(id)}
    /\ UNCHANGED <<fields, objects, ipc, frame, hist, readers, others, life, clients>>

\* enterSecureDesktop at line 238: the mapping is made, the relay server
\* listens and the payload is in the buffer with its terminator.
RelayInit ==
    /\ followerSession \in {"s1", "s2"} /\ sdServer = 1 /\ sdRelay = NoId
    /\ sdBridge = NoId /\ mapFile = NoId /\ bufferAddress = NoId
    /\ \E port \in Ports :
         /\ servers = {[id |-> 1, port |-> port, channel |-> uuid4(1, UUID_LEN)]}
         /\ lPort = port /\ lChannel = uuid4(1, UUID_LEN)
         /\ shm = setValue(Zeros, dumps(port, chars(uuid4(1, UUID_LEN))))
    /\ relays = {} /\ bridges = {} /\ dispHook = {transport(followerSession)}
    /\ eventSet = FALSE /\ hMaps = {1} /\ hViews = {1}
    /\ pc = "enter_build" /\ caller = "none" /\ arg = None /\ lId = 1
    /\ ops = <<"LocalRelayServer", "buffer.value">> /\ call = "enter"
    /\ raised = FALSE /\ nextId = 2 /\ raises = 0 /\ built = {} /\ issued = <<1>>
    /\ rpc = [r \in Readers |-> "idle"]
    /\ rMapFile = [r \in Readers |-> FALSE]
    /\ rView = [r \in Readers |-> FALSE]
    /\ rResult = [r \in Readers |-> Pending]
    /\ subscribed = TRUE /\ ipcEventHandle = "open" /\ sent = <<>>
    /\ inbound = NoMessage
    /\ clients = {} /\ threads = {}
    /\ othersIdle

RelayNext ==
    \/ enterBuild
    \/ enterSignal
    \/ callReturns
    \/ leaveSecureDesktop
    \/ leaveTeardown
    \/ leaveReset
    \/ leaveUnmap
    \/ relayConnects
    \/ clientConnects
    \/ graceExpires
    \/ clientLeaves
    \/ serverReceives
    \/ relayDispatch
    \/ handled
    \/ acceptLoopExits
    \/ readLoopExits

\* A thread whose blocking call has failed with the error of a closed socket
\* runs on and leaves its loop.
RelaySpec ==
    /\ RelayInit /\ [][RelayNext]_vars
    /\ WF_vars(acceptLoopExits) /\ WF_vars(readLoopExits)

\* C27: the clients a relay server counts as authenticated are those that
\* presented the token generated for it, the handler's relay transport among
\* them; a message the server receives from an authenticated client is
\* delivered once, with its type and fields, to every other authenticated
\* client of that server and to nobody else, never to its sender; a message
\* of a client that is not authenticated is delivered to nobody.
C27_BroadcastNoEcho ==
    /\ [](\A c \in clients :
            /\ \E s \in servers :
                 /\ s.id = c.server
                 /\ c.authed <=> (c.token.n = issued[s.id] /\ c.token.len = s.channel.len)
            /\ c.name = relayName(c.server) => c.authed)
    /\ [][(inbound = NoMessage /\ inbound' # NoMessage /\ inbound'.at = "server") =>
             \E c \in clients :
                /\ c.name = inbound'.on
                /\ \A d \in clients :
                     (c.authed /\ d.authed /\ d.server = c.server /\ d.name # c.name)
                         => Cardinality({i \in 1..Len(sent') :
                                sent'[i] = [to |-> d.name, type |-> inbound'.msg.type,
                                            fields |-> inbound'.msg.fields]}) = 1
                /\ \A i \in 1..Len(sent') :
                     /\ sent'[i].to # c.name
                     /\ sent'[i].type = inbound'.msg.type
                     /\ sent'[i].fields = inbound'.msg.fields
                     /\ \E d \in clients :
                          d.name = sent'[i].to /\ d.authed /\ d.server = c.server
                /\ Len(sent') = Cardinality({sent'[i].to : i \in 1..Len(sent')})
                /\ ~c.authed => sent' = <<>>]_vars

\* C27: three authenticated clients are connected, and a message of the
\* handler's relay transport was delivered to the two others and not to it.
C27_ThreeClients ==
    /\ Cardinality({c \in clients : c.authed}) = 3
    /\ inbound # NoMessage /\ inbound.on = "relay1" /\ inbound.at = "server"
    /\ {sent[i].to : i \in 1..Len(sent)} = {"sd", "c3"} /\ Len(sent) = 2

\* C28: a thread leaves its loop only when its socket is closed; once
\* leaveSecureDesktop has made its teardown calls, the relay server and the
\* relay transport are closed, and the accept loop and the read loop that
\* enterSecureDesktop started eventually end; closing a relay transport that
\* is closed changes nothing.
C28_LoopsStop ==
    /\ [][\A id \in 1..(nextId - 1) :
             /\ (AcceptLoop(id) \in threads /\ AcceptLoop(id) \notin threads')
                    => \A s \in servers : s.id # id
             /\ (ReadLoop(id) \in threads /\ ReadLoop(id) \notin threads')
                    => id \notin relays]_vars
    /\ [](pc = "leave_reset" => (servers = {} /\ relays = {}))
    /\ [](\A id \in built \ relays : relayClosed(clients, id) = clients)
    /\ (pc = "leave_reset") ~> (threads = {})

\* C28: leaveSecureDesktop has returned after its eight steps, the relay
\* server and the relay transport are closed and both threads have ended.
C28_ThreadsEnded ==
    /\ pc = "return" /\ call = "leave" /\ ops = LeaveOrder
    /\ built # {} /\ servers = {} /\ relays = {} /\ threads = {}

\* C29: for a message that the read loop of a relay transport dispatches,
\* every handler registered for its type is called, _onLeaderDisplayChange
\* (for CLIENT_JOINED) before the hook of the bridge, whichever of them fail;
\* the read loop runs on through the dispatch and after it, and while the
\* transport is open and connected the next message can be dispatched.
C29_LoopSurvivesFailure ==
    /\ [][(inbound = NoMessage /\ inbound' # NoMessage /\ inbound'.at = "transport") =>
             \E id \in relays :
                /\ inbound'.on = relayName(id)
                /\ [i \in 1..Len(sent') |-> sent'[i].handler]
                     = (IF inbound'.msg.type = "client-joined"
                        THEN <<"_onLeaderDisplayChange">> ELSE <<>>)
                       \o (IF id \in connected THEN <<"BridgeTransport">> ELSE <<>>)
                /\ ReadLoop(id) \in threads' /\ threads' = threads]_vars
    /\ [][(inbound # NoMessage /\ inbound' = NoMessage) => threads' = threads]_vars
    /\ [](\A id \in relays :
             (/\ ReadLoop(id) \in threads /\ inbound = NoMessage
              /\ \E c \in clients : c.name = relayName(id) /\ c.authed)
                 => ENABLED relayDispatch)

\* C29: of the two handlers called for a CLIENT_JOINED the first has failed
\* and the second was called after it.
C29_SecondCalledAfterFailure ==
    /\ inbound # NoMessage /\ inbound.at = "transport"
    /\ sent = <<[handler |-> "_onLeaderDisplayChange", failed |-> TRUE],
                [handler |-> "BridgeTransport", failed |-> FALSE]>>

(***************************************************************************)
(* installer._deleteFileGroupOrFail(installDir, relativeFilepaths), as     *)
(* tests/unit/test_installer.py (Test_BatchDeletion) states it: the files  *)
(* are deleted as one batch; if one of them cannot be deleted the whole    *)
(* operation is aborted and the files are back where they started.         *)
(***************************************************************************)
\* Test_BatchDeletion._sampleFiles, the relativeFilepaths of every call.
sampleFiles == <<"file1.txt", "file2.txt", "file3.txt">>

listed == {sampleFiles[i] : i \in 1..Len(sampleFiles)}

\* The files moved aside are left where they are when the batch is aborted.
notRestored(moved) == {}

\* The files moved aside are put back at their original paths when the batch
\* is aborted.
restored(moved) == moved

\* The call begins with the first of the files.
deleteFileGroupOrFail ==
    /\ dpc = stepAt("call", 0)
    /\ dpc' = stepAt("loop", 1)
    /\ UNCHANGED <<outsideInstaller, installDir, tempDir, openFiles, existed, dResult>>

\* The next file is taken out of the installation directory: a file that does
\* not exist is passed over, a file that another process holds open cannot be
\* taken and the batch is aborted.
deleteNext ==
    /\ dpc.step = "loop" /\ dpc.i <= Len(sampleFiles)
    /\ LET f == sampleFiles[dpc.i] IN
       IF f \notin installDir
       THEN dpc' = stepAt("loop", dpc.i + 1) /\ UNCHANGED <<installDir, tempDir>>
       ELSE IF f \in openFiles
       THEN dpc' = stepAt("abort", 0) /\ UNCHANGED <<installDir, tempDir>>
       ELSE /\ installDir' = installDir \ {f}
            /\ tempDir' = tempDir \cup {f}
            /\ dpc' = stepAt("loop", dpc.i + 1)
    /\ UNCHANGED <<outsideInstaller, openFiles, existed, dResult>>

\* Every file is out of the installation directory: the files taken are
\* deleted and the call returns.
deleteCommit ==
    /\ dpc = stepAt("loop", Len(sampleFiles) + 1)
    /\ tempDir' = {}
    /\ dpc' = stepAt("done", 0) /\ dResult' = "returned"
    /\ UNCHANGED <<outsideInstaller, installDir, openFiles, existed>>

\* The batch is aborted: the files taken are put back and RetriableFailure
\* is raised.
deleteAbort ==
    /\ dpc = stepAt("abort", 0)
    /\ installDir' = installDir \cup restored(tempDir)
    /\ tempDir' = {}
    /\ dpc' = stepAt("done", 0) /\ dResult' = "RetriableFailure"
    /\ UNCHANGED <<outsideInstaller, openFiles, existed>>

\* Another process opens a file of the installation directory while the call
\* has not got to it.
fileOpened ==
    /\ dpc.step = "loop" /\ dpc.i <= Len(sampleFiles)
    /\ \E f \in installDir \ openFiles : openFiles' = openFiles \cup {f}
    /\ UNCHANGED <<outsideInstaller, installDir, tempDir, existed, dpc, dResult>>

\* The remote client as SecureDesktopHandler.__init__ leaves it, with nothing
\* going on.
handlerIdle ==
    /\ followerSession = None /\ sdServer = NoId /\ sdRelay = NoId
    /\ sdBridge = NoId /\ mapFile = NoId /\ bufferAddress = NoId
    /\ servers = {} /\ relays = {} /\ bridges = {} /\ dispHook = {}
    /\ eventSet = FALSE /\ shm = Zeros /\ hMaps = {} /\ hViews = {}
    /\ pc = "idle" /\ caller = "none" /\ arg = None
    /\ lId = NoId /\ lPort = 0 /\ lChannel = uuid4(0, 0)
    /\ ops = <<>> /\ call = "none" /\ raised = FALSE /\ nextId = 1 /\ raises = 0
    /\ built = {} /\ issued = <<>>
    /\ rpc = [r \in Readers |-> "idle"]
    /\ rMapFile = [r \in Readers |-> FALSE]
    /\ rView = [r \in Readers |-> FALSE]
    /\ rResult = [r \in Readers |-> Pending]
    /\ subscribed = TRUE /\ ipcEventHandle = "open" /\ sent = <<>>
    /\ inbound = NoMessage
    /\ clients = {} /\ threads = {}

remoteIdle == handlerIdle /\ stalenessOff

\* Test_BatchDeletion.setUp and the tests' first lines: some of the sample
\* files exist, and another process holds some of those open.
InstallerInit ==
    /\ remoteIdle
    /\ installDir \in SUBSET listed
    /\ openFiles \in SUBSET installDir
    /\ existed = installDir
    /\ tempDir = {} /\ dpc = stepAt("call", 0) /\ dResult = "none"
    /\ warningIdle /\ registrarIdle /\ viewerIdle /\ magnifierIdle

InstallerNext ==
    \/ deleteFileGroupOrFail
    \/ deleteNext
    \/ deleteCommit
    \/ deleteAbort
    \/ fileOpened

InstallerSpec == InstallerInit /\ [][InstallerNext]_vars

\* C30: when _deleteFileGroupOrFail has returned, none of the listed files is
\* in the installation directory, whether it existed before or not; when it
\* has raised RetriableFailure, one of the files that existed could not be
\* deleted and every file that existed before the call is at its original
\* path again; it ends in one of the two ways and leaves nothing aside.
C30_AllOrNothing ==
    dpc.step = "done" =>
        /\ tempDir = {}
        /\ \/ dResult = "returned" /\ installDir \cap listed = {}
           \/ /\ dResult = "RetriableFailure"
              /\ installDir = existed
              /\ existed \cap openFiles # {}

\* C30: with the three files in place and the second held open, the call has
\* raised RetriableFailure and the three files are in place again.
C30_FailureRestored ==
    /\ dpc.step = "done" /\ dResult = "RetriableFailure"
    /\ existed = listed /\ openFiles = {"file2.txt"} /\ installDir = listed

(***************************************************************************)
(* installerGui._shouldWarnBeforeUpdate(), as testFollowerWarning in       *)
(* tests/unit/test_installer.py states it: whether the user is warned      *)
(* before an update that would cut a remote follower off.                  *)
(***************************************************************************)
\* A row of the test's table (_ShouldWarnBeforeUpdateFactors); expectedReturn
\* defaults to False.
Factors(enabled, follower, admin, expected) ==
    [remoteEnabled |-> enabled, isConnectedAsFollower |-> follower,
     isUserAnAdmin |-> admin, expectedReturn |-> expected]

\* The table with no row expecting a warning.
factorsNoWarning ==
    <<Factors(FALSE, FALSE, FALSE, FALSE), Factors(FALSE, FALSE, TRUE, FALSE),
      Factors(FALSE, TRUE, FALSE, FALSE), Factors(FALSE, TRUE, TRUE, FALSE),
      Factors(TRUE, FALSE, FALSE, FALSE), Factors(TRUE, FALSE, TRUE, FALSE),
      Factors(TRUE, TRUE, FALSE, FALSE), Factors(TRUE, TRUE, TRUE, FALSE)>>

\* The rows of parameterized.expand, in their order.
factors ==
    <<Factors(FALSE, FALSE, FALSE, FALSE), Factors(FALSE, FALSE, TRUE, FALSE),
      Factors(FALSE, TRUE, FALSE, FALSE), Factors(FALSE, TRUE, TRUE, FALSE),
      Factors(TRUE, FALSE, FALSE, FALSE), Factors(TRUE, FALSE, TRUE, FALSE),
      Factors(TRUE, TRUE, FALSE, TRUE), Factors(TRUE, TRUE, TRUE, FALSE)>>

\* The rows of the table for one combination of the three flags.
rowsFor(enabled, follower, admin) ==
    {i \in 1..Len(factors) :
        /\ factors[i].remoteEnabled = enabled
        /\ factors[i].isConnectedAsFollower = follower
        /\ factors[i].isUserAnAdmin = admin}

\* The number of calls of _shouldWarnBeforeUpdate a behaviour keeps.
MaxCalls == 2

\* patch("winBindings.shell32.IsUserAnAdmin", return_value=isUserAnAdmin)
patchIsUserAnAdmin ==
    /\ \E b \in BOOLEAN : isUserAnAdmin' = b
    /\ UNCHANGED <<outsideWarning, remoteEnabled, isConnectedAsFollower, warnCalls>>

\* patch("_remoteClient.client.RemoteClient", isConnectedAsFollower=...)
patchRemoteClient ==
    /\ \E b \in BOOLEAN : isConnectedAsFollower' = b
    /\ UNCHANGED <<outsideWarning, remoteEnabled, isUserAnAdmin, warnCalls>>

\* patch.dict("_remoteClient.__dict__", _remoteClient=client or None)
patchRemoteClientDict ==
    /\ \E b \in BOOLEAN : remoteEnabled' = b
    /\ UNCHANGED <<outsideWarning, isConnectedAsFollower, isUserAnAdmin, warnCalls>>

\* What _shouldWarnBeforeUpdate returns: the remote client is there, it is
\* connected as follower, and the user is not an administrator.
shouldWarnBeforeUpdate ==
    /\ remoteEnabled
    /\ isConnectedAsFollower
    /\ ~isUserAnAdmin

\* installerGui._shouldWarnBeforeUpdate() is called.
callShouldWarnBeforeUpdate ==
    /\ Len(warnCalls) < MaxCalls
    /\ warnCalls' = Append(warnCalls,
           [remoteEnabled |-> remoteEnabled,
            isConnectedAsFollower |-> isConnectedAsFollower,
            isUserAnAdmin |-> isUserAnAdmin,
            returned |-> shouldWarnBeforeUpdate])
    /\ UNCHANGED <<outsideWarning, remoteEnabled, isConnectedAsFollower, isUserAnAdmin>>

WarnInit ==
    /\ remoteIdle
    /\ installerIdle
    /\ remoteEnabled \in BOOLEAN
    /\ isConnectedAsFollower \in BOOLEAN
    /\ isUserAnAdmin \in BOOLEAN
    /\ warnCalls = <<>>
    /\ registrarIdle /\ viewerIdle /\ magnifierIdle

WarnNext ==
    \/ patchIsUserAnAdmin
    \/ patchRemoteClient
    \/ patchRemoteClientDict
    \/ callShouldWarnBeforeUpdate

WarnSpec == WarnInit /\ [][WarnNext]_vars

\* C31: every call of _shouldWarnBeforeUpdate returns what the test's table
\* expects for its three flags; the table has one row for each of the eight
\* combinations, and the only row that expects True is the one with the
\* remote client enabled, connected as follower, and no administrator.
C31_WarnsExactlyForFollower ==
    /\ \A e, f, a \in BOOLEAN :
           /\ Cardinality(rowsFor(e, f, a)) = 1
           /\ \A i \in rowsFor(e, f, a) :
                  factors[i].expectedReturn = (e /\ f /\ ~a)
    /\ \A k \in 1..Len(warnCalls) :
           LET c == warnCalls[k] IN
           /\ \A i \in rowsFor(c.remoteEnabled, c.isConnectedAsFollower,
                               c.isUserAnAdmin) :
                  c.returned = factors[i].expectedReturn
           /\ c.returned =
                  (c.remoteEnabled /\ c.isConnectedAsFollower /\ ~c.isUserAnAdmin)

\* C31: one call with a follower that is no administrator has returned True
\* and one call with a follower that is an administrator has returned False.
C31_WarnedAndNotWarned ==
    /\ \E k \in 1..Len(warnCalls) :
           /\ warnCalls[k].remoteEnabled /\ warnCalls[k].isConnectedAsFollower
           /\ ~warnCalls[k].isUserAnAdmin /\ warnCalls[k].returned
    /\ \E k \in 1..Len(warnCalls) :
           /\ warnCalls[k].remoteEnabled /\ warnCalls[k].isConnectedAsFollower
           /\ warnCalls[k].isUserAnAdmin /\ ~warnCalls[k].returned

(***************************************************************************)
(* extensionPoints/util.py: HandlerRegistrar, with the weak references it  *)
(* keeps (AnnotatableWeakref, BoundMethodWeakref) and _getHandlerKey.      *)
(***************************************************************************)
\* The callables of the callers: a function, the bound methods of an instance
\* t and of two instances e1 and e2 whose truth value is False (their class
\* defines __len__ and they are empty), and a function of a class whose first
\* parameter is self.
Handlers == {"f", "t.meth", "e1.meth", "e2.meth", "C.meth"}

\* The handlers that can die: C.meth lives as long as its class.
Mortal == {"f", "t.meth", "e1.meth", "e2.meth"}

\* inspect.isfunction(handler)
isfunction(handler) == handler \in {"f", "C.meth"}

\* list(sig.parameters)[0] == "self"
firstParameterIsSelf(handler) == handler = "C.meth"

\* inspect.ismethod(handler)
ismethod(handler) == handler \in {"t.meth", "e1.meth", "e2.meth"}

\* handler.__self__ and handler.__func__ of a bound method
selfOf(handler) ==
    CASE handler = "t.meth" -> "t"
      [] handler = "e1.meth" -> "e1"
      [] handler = "e2.meth" -> "e2"

funcOf(handler) == IF handler = "t.meth" THEN "T.meth" ELSE "E.meth"

\* bool(inst): what "if inst" and "if not inst" test.
truth(inst) == inst = "t"

\* The addresses CPython gives to the bound method object that a fetch of
\* inst.meth creates; the object is freed after the call it was made for,
\* so that the next fetch can get the same address or another one.
Addresses == {"a1", "a2"}

\* _getHandlerKey(handler); address is id(handler) of a bound method object.
getHandlerKey(handler, address) ==
    IF ismethod(handler) /\ truth(selfOf(handler))
    THEN [inst |-> selfOf(handler), func |-> funcOf(handler)]
    ELSE IF ismethod(handler)
    THEN [id |-> address]
    ELSE [id |-> handler]

\* The weak reference register makes, with its handlerKey.
Weak(handler, key) == [target |-> handler, handlerKey |-> key]

\* A weak reference that is kept alive by the cycle through its callbacks
\* when it is dropped: the BoundMethodWeakref (onRefDelete refers to self).
inCycle(weak) == ismethod(weak.target)

\* weak(): the handler, or None when it died; BoundMethodWeakref.__call__
\* returns None when "not inst".
deref(weak, alive) ==
    IF weak.target \notin alive THEN None
    ELSE IF ismethod(weak.target) /\ ~truth(selfOf(weak.target)) THEN None
    ELSE weak.target

keysOf(d) == {d[i].handlerKey : i \in 1..Len(d)}

\* del d[key]
delKey(d, key) == SelectSeq(d, LAMBDA w : w.handlerKey # key)

\* d[key] = weak: an OrderedDict keeps the position of a key it has.
setItem(d, weak) ==
    IF weak.handlerKey \in keysOf(d)
    THEN [i \in 1..Len(d) |->
             IF d[i].handlerKey = weak.handlerKey THEN weak ELSE d[i]]
    ELSE Append(d, weak)

\* d.move_to_end(key, last)
move_to_end(d, key, last) ==
    LET it == SelectSeq(d, LAMBDA w : w.handlerKey = key) IN
    IF last THEN delKey(d, key) \o it ELSE it \o delKey(d, key)

\* The weak references that leave _handlers between d and e and stay alive.
dropped(d, e) ==
    {d[i] : i \in {j \in 1..Len(d) :
                     /\ inCycle(d[j])
                     /\ \A k \in 1..Len(e) : e[k] # d[j]}}

\* The order of registration, as the callers see it.
orderWithout(o, handler) == SelectSeq(o, LAMBDA h : h # handler)

orderWith(o, handler) ==
    IF \E i \in 1..Len(o) : o[i] = handler THEN o ELSE Append(o, handler)

orderMoved(o, handler, last) ==
    IF \A i \in 1..Len(o) : o[i] # handler THEN o
    ELSE IF last THEN Append(orderWithout(o, handler), handler)
    ELSE <<handler>> \o orderWithout(o, handler)

\* HandlerRegistrar.register(handler)
register ==
    \E handler \in regAlive \cup {"C.meth"}, address \in Addresses :
        IF isfunction(handler) /\ firstParameterIsSelf(handler)
        THEN \* TypeError
             UNCHANGED <<outsideRegistrar, registrar>>
        ELSE LET key == getHandlerKey(handler, address)
                 new == setItem(regHandlers, Weak(handler, key)) IN
             /\ regHandlers' = new
             /\ regStale' = regStale \cup dropped(regHandlers, new)
             /\ regOrder' = orderWith(regOrder, handler)
             /\ UNCHANGED <<outsideRegistrar, regAlive>>

\* HandlerRegistrar.moveToEnd(handler, last)
moveToEnd ==
    \E handler \in regAlive, address \in Addresses, last \in BOOLEAN :
        LET key == getHandlerKey(handler, address) IN
        /\ regHandlers' = IF key \in keysOf(regHandlers)
                          THEN move_to_end(regHandlers, key, last)
                          ELSE regHandlers
        /\ regOrder' = orderMoved(regOrder, handler, last)
        /\ UNCHANGED <<outsideRegistrar, regAlive, regStale>>

\* HandlerRegistrar.unregister(handler), called with the handler.
unregister ==
    \E handler \in regAlive, address \in Addresses :
        LET key == getHandlerKey(handler, address)
            new == delKey(regHandlers, key) IN
        /\ regHandlers' = new
        /\ regStale' = regStale \cup dropped(regHandlers, new)
        /\ regOrder' = orderWithout(regOrder, handler)
        /\ UNCHANGED <<outsideRegistrar, regAlive>>

\* The weak references to a handler that are alive, in _handlers or not.
weaksOf(handler) ==
    {regHandlers[i] : i \in {j \in 1..Len(regHandlers) :
                               regHandlers[j].target = handler}}
    \cup {w \in regStale : w.target = handler}

\* A handler dies: each weak reference to it calls its callback,
\* self.unregister(weak), which deletes weak.handlerKey from _handlers.
handlerDies ==
    \E handler \in regAlive \cap Mortal :
        LET keys == {w.handlerKey : w \in weaksOf(handler)}
            new == SelectSeq(regHandlers, LAMBDA w : w.handlerKey \notin keys) IN
        /\ regAlive' = regAlive \ {handler}
        /\ regHandlers' = new
        /\ regStale' = {w \in regStale \cup dropped(regHandlers, new) :
                           w.target # handler}
        /\ regOrder' = orderWithout(regOrder, handler)
        /\ UNCHANGED outsideRegistrar

\* The cycle collector frees the weak references that are out of _handlers.
collect ==
    /\ regStale # {}
    /\ regStale' = {}
    /\ UNCHANGED <<outsideRegistrar, regHandlers, regAlive, regOrder>>

\* HandlerRegistrar.handlers: the handlers the generator yields.
RECURSIVE yielded(_, _)
yielded(d, alive) ==
    IF d = <<>> THEN <<>>
    ELSE IF deref(Head(d), alive) = None THEN yielded(Tail(d), alive)
    ELSE <<deref(Head(d), alive)>> \o yielded(Tail(d), alive)

handlers == yielded(regHandlers, regAlive)

RegInit ==
    /\ remoteIdle
    /\ installerIdle /\ warningIdle
    /\ regHandlers = <<>> /\ regAlive = Mortal
    /\ regStale = {} /\ regOrder = <<>>
    /\ viewerIdle /\ magnifierIdle

RegNext ==
    \/ register
    \/ moveToEnd
    \/ unregister
    \/ handlerDies
    \/ collect

RegSpec == RegInit /\ [][RegNext]_vars

\* C32: handlers yields each live registered handler once, in the order of
\* registration as moveToEnd changed it: a handler that is registered again
\* is not yielded twice and keeps its place.
C32_HandlersInOrder == handlers = regOrder

\* C32: two handlers are registered and _handlers has two entries.
C32_TwoRegistered == Len(regOrder) = 2 /\ Len(regHandlers) = 2

entries(d) == {d[i] : i \in 1..Len(d)}

\* C33: handlers never yields a handler that has died, and when a handler
\* dies, the entries of _handlers for handlers that are still alive stay.
C33_DeathRemovesOnlyTheDead ==
    /\ [](\A i \in 1..Len(handlers) : handlers[i] \in regAlive)
    /\ [][regAlive' # regAlive =>
             \A w \in entries(regHandlers) :
                 w.target \in regAlive' => w \in entries(regHandlers')]_vars

\* C33: a registered handler has died and its entry is gone, while another
\* handler is still registered.
C33_DeadUnregistered ==
    /\ regAlive # Mortal
    /\ \E w \in entries(regHandlers) : w.target \in regAlive
    /\ \A w \in entries(regHandlers) : w.target \in regAlive
    /\ Len(regOrder) >= 1

(***************************************************************************)
(* brailleViewer/__init__.py: createBrailleViewerTool, destroyBrailleViewer *)
(* and _onGuiDestroyed.  A BrailleViewerFrame (brailleViewerGui) is        *)
(* "shown" from its construction, "pending" once saveInfoAndDestroy has    *)
(* asked for its destruction, and "destroyed" once its destroy event has   *)
(* set isDestroyed and called the onDestroyed callback.                    *)
(***************************************************************************)
\* The state of the viewer as one value, for the steps inside a call.
viewerState ==
    [gui |-> brailleGui, frames |-> frameState, filter |-> filterRegistered,
     pre |-> preWrite, owed |-> unannounced, last |-> notified,
     raised |-> "none"]

\* postBrailleViewerToolToggledAction.notify(created=created)
notify(s, created) ==
    IF created
    THEN [s EXCEPT !.last = "True"]
    ELSE [s EXCEPT !.last = "False", !.owed = {}]

\* d.saveInfoAndDestroy(): the destruction of the window is asked for. The
\* destroy event comes within the call (sync) or later; within the call the
\* callback finds _brailleGui None and only notifies.
saveInfoAndDestroy(s, d, sync) ==
    IF sync
    THEN notify([s EXCEPT !.frames[d] = "destroyed", !.owed = @ \cup {d}], FALSE)
    ELSE [s EXCEPT !.frames[d] = "pending", !.owed = @ \cup {d}]

\* Lines 81 and 82: braille.filter_displayDimensions.unregister and the
\* assertion on what it returned.
filterUnregistered(s) ==
    IF s.filter
    THEN [s EXCEPT !.filter = FALSE]
    ELSE [s EXCEPT !.raised = "AssertionError"]

\* destroyBrailleViewer()
destroyBrailleViewerFrom(s, sync) ==
    LET d == s.gui
        s1 == [s EXCEPT !.gui = NoFrame] IN
    IF d = NoFrame THEN s1
    ELSE IF s1.frames[d] # "destroyed"
    THEN IF d \notin s1.pre
         THEN [s1 EXCEPT !.raised = "AssertionError"]
         ELSE filterUnregistered(
                  saveInfoAndDestroy([s1 EXCEPT !.pre = @ \ {d}], d, sync))
    ELSE filterUnregistered(s1)

\* _onGuiDestroyed()
onGuiDestroyedFrom(s, sync) ==
    LET s1 == destroyBrailleViewerFrom(s, sync) IN
    IF s1.raised # "none" THEN s1 ELSE notify(s1, FALSE)

\* The variables take the values a call has left.
viewerBecomes(s) ==
    /\ brailleGui' = s.gui
    /\ frameState' = s.frames
    /\ filterRegistered' = s.filter
    /\ preWrite' = s.pre
    /\ unannounced' = s.owed
    /\ notified' = s.last
    /\ bvResult' = s.raised
    /\ UNCHANGED outsideViewer

\* The frame the next BrailleViewerFrame(...) makes.
newFrame == CHOOSE f \in Frames :
                /\ frameState[f] = "none"
                /\ \A g \in Frames : frameState[g] = "none" => f <= g

\* createBrailleViewerTool(), in secure mode or not, with gui.mainFrame and
\* braille.handler initialised or not.
createBrailleViewerTool ==
    \E secureMode, mainFrame, handler, sync \in BOOLEAN :
        /\ \E f \in Frames : frameState[f] = "none"
        /\ IF secureMode
           THEN viewerBecomes([viewerState EXCEPT !.raised = "blocked"])
           ELSE IF ~mainFrame \/ ~handler
           THEN viewerBecomes([viewerState EXCEPT !.raised = "RuntimeError"])
           ELSE LET s1 == [viewerState EXCEPT !.filter = TRUE]
                    s2 == IF s1.gui # NoFrame
                          THEN destroyBrailleViewerFrom(s1, sync)
                          ELSE s1
                    s3 == [s2 EXCEPT !.gui = newFrame,
                                     !.frames[newFrame] = "shown",
                                     !.pre = @ \cup {newFrame}] IN
                IF s2.raised # "none"
                THEN viewerBecomes(s2)
                ELSE viewerBecomes(notify(s3, TRUE))

\* destroyBrailleViewer(), called by the tools menu or on exit.
destroyBrailleViewer ==
    \E sync \in BOOLEAN :
        viewerBecomes(destroyBrailleViewerFrom(viewerState, sync))

\* The window is closed by the user (alt+F4, the taskbar): its destroy event
\* sets isDestroyed and calls _onGuiDestroyed.
windowCloses ==
    \E f \in Frames, sync \in BOOLEAN :
        /\ frameState[f] = "shown"
        /\ viewerBecomes(onGuiDestroyedFrom(
               [viewerState EXCEPT !.frames[f] = "destroyed",
                                   !.owed = @ \cup {f}], sync))

\* The destroy event of a window that saveInfoAndDestroy destroyed.
destroyEvent ==
    \E f \in Frames, sync \in BOOLEAN :
        /\ frameState[f] = "pending"
        /\ viewerBecomes(onGuiDestroyedFrom(
               [viewerState EXCEPT !.frames[f] = "destroyed"], sync))

ViewerInit ==
    /\ remoteIdle
    /\ installerIdle /\ warningIdle /\ registrarIdle
    /\ viewerIdle /\ magnifierIdle

ViewerNext ==
    \/ createBrailleViewerTool
    \/ destroyBrailleViewer
    \/ windowCloses
    \/ destroyEvent

\* The destroy event of a destroyed window is delivered.
ViewerSpec == ViewerInit /\ [][ViewerNext]_vars /\ WF_vars(destroyEvent)

isBrailleViewerActive == brailleGui # NoFrame

\* C39: whenever the braille viewer is active, _getDisplayDimensions and the
\* viewer's updateBrailleDisplayed are registered; no call ends with a failed
\* assertion; and destroyBrailleViewer with no active viewer changes nothing.
C39_ActiveViewerRegistered ==
    /\ [](isBrailleViewerActive =>
              filterRegistered /\ brailleGui \in preWrite)
    /\ [](bvResult # "AssertionError")
    /\ [][(destroyBrailleViewer /\ ~isBrailleViewerActive) =>
              UNCHANGED <<brailleGui, frameState, filterRegistered, preWrite,
                          unannounced, notified>>]_vars

\* C39: a viewer has been created while another one was active.
C39_CreatedOverActive ==
    /\ isBrailleViewerActive
    /\ \E f \in Frames : f # brailleGui /\ frameState[f] # "none"

\* C34: the creation of a viewer is followed, within the call, by
\* notify(created=True), and the destruction of a viewer, by
\* destroyBrailleViewer, by the close of its window or by the creation of the
\* next viewer, is followed by a notify(created=False).
C34_ToggleNotified ==
    /\ [][\A f \in Frames :
              (frameState[f] = "none" /\ frameState'[f] = "shown")
                  => notified' = "True"]_vars
    /\ \A f \in Frames : (f \in unannounced) ~> (f \notin unannounced)

\* C34: a viewer has been destroyed and notify(created=False) has followed.
C34_DestroyedAndNotified ==
    /\ \E f \in Frames : frameState[f] = "destroyed"
    /\ unannounced = {} /\ notified = "False"

(***************************************************************************)
(* _magnifier/commands.py: toggleFilter and magnifierIsActiveVerify, with  *)
(* toggleMagnifier, which starts and stops the magnifier.                  *)
(***************************************************************************)
\* list(Filter): the members of the enumeration in the order of declaration.
Filter == <<"NORMAL", "GRAYSCALE", "INVERTED">>

\* The values of MagnifierType, FULLSCREEN and the others.
MagnifierType == {"FULLSCREEN", "DOCKED", "LENS"}

\* filters.index(member), counted from 0 as the list is.
index(filters, member) ==
    (CHOOSE i \in 1..Len(filters) : filters[i] = member) - 1

\* The member after the current one with no wrap: the last is kept.
nextFilterNoWrap(filters, idx) ==
    IF idx + 1 < Len(filters) THEN filters[idx + 2] ELSE filters[idx + 1]

\* filters[(idx + 1) % len(filters)]
nextFilter(filters, idx) == filters[((idx + 1) % Len(filters)) + 1]

\* The number of toggleFilter calls in a row a behaviour keeps.
MaxToggles == 6

\* magnifierIsActiveVerify(magnifier, action): what it returns; when False
\* it has said "Cannot {action} when Magnifier is not active."
magnifierIsActiveVerify == magnifier /\ isActive

\* toggleMagnifier(): the magnifier is stopped when it is active; otherwise
\* it is started with the default filter unless the screen curtain is on.
toggleMagnifier ==
    \E screenCurtain, kept \in BOOLEAN, default \in 1..Len(Filter),
       type \in MagnifierType :
        /\ IF magnifier /\ isActive
           THEN /\ magnifier' = kept /\ isActive' = FALSE
                /\ uiMessage' = "Exiting magnifier"
                /\ UNCHANGED <<filterType, magnifierType, appliedFilter>>
           ELSE IF screenCurtain
           THEN /\ uiMessage' = "Cannot start magnifier"
                /\ UNCHANGED <<magnifier, isActive, filterType, magnifierType,
                               appliedFilter>>
           ELSE /\ magnifier' = TRUE /\ isActive' = TRUE
                /\ filterType' = Filter[default]
                /\ magnifierType' = type
                /\ appliedFilter' = IF type = "FULLSCREEN"
                                    THEN Filter[default] ELSE "none"
                /\ uiMessage' = "Starting magnifier"
        /\ toggled' = <<>>
        /\ UNCHANGED outsideMagnifier

\* toggleFilter()
toggleFilter ==
    /\ Len(toggled) <= MaxToggles
    /\ IF magnifierIsActiveVerify
       THEN LET filters == Filter
                idx == index(filters, filterType)
                new == nextFilter(filters, idx) IN
            /\ filterType' = new
            /\ appliedFilter' = IF magnifierType = "FULLSCREEN"
                                THEN new ELSE appliedFilter
            /\ uiMessage' = "Color filter changed"
            /\ toggled' = IF toggled = <<>> THEN <<filterType, new>>
                          ELSE Append(toggled, new)
            /\ UNCHANGED <<magnifier, isActive, magnifierType>>
       ELSE /\ uiMessage' = "Cannot toggle filter"
            /\ UNCHANGED <<magnifier, isActive, filterType, magnifierType,
                           appliedFilter, toggled>>
    /\ UNCHANGED outsideMagnifier

MagnifierInit ==
    /\ remoteIdle
    /\ installerIdle /\ warningIdle /\ registrarIdle /\ viewerIdle
    /\ magnifierIdle

MagnifierNext ==
    \/ toggleMagnifier
    \/ toggleFilter

MagnifierSpec == MagnifierInit /\ [][MagnifierNext]_vars

\* The member of Filter declared after a member, the first after the last.
declaredAfter(member) ==
    LET i == CHOOSE j \in 1..Len(Filter) : Filter[j] = member IN
    IF i = Len(Filter) THEN Filter[1] ELSE Filter[i + 1]

\* C40: on an active magnifier toggleFilter sets filterType to the member of
\* Filter declared next, the first after the last, so that after len(Filter)
\* calls in a row the filter is the one it was; on a magnifier that is not
\* active or not there it leaves the magnifier as it is.
C40_FilterCycles ==
    /\ [][toggleFilter =>
              IF magnifier /\ isActive
              THEN filterType' = declaredAfter(filterType)
              ELSE UNCHANGED <<magnifier, isActive, filterType, magnifierType,
                               appliedFilter>>]_vars
    /\ [](\A k \in 1..Len(toggled) :
              k + Len(Filter) <= Len(toggled)
                  => toggled[k + Len(Filter)] = toggled[k])

\* C40: len(Filter) calls in a row have been made on an active magnifier that
\* started with the last member.
C40_WrappedAround ==
    /\ Len(toggled) = Len(Filter) + 1
    /\ toggled[1] = Filter[Len(Filter)]
    /\ magnifier /\ isActive

(***************************************************************************)
(* The handler over whole sequences of desktop transitions.                *)
(***************************************************************************)
\* Every relay server, relay transport, bridge, mapping handle and view that
\* is live is the one the handler's field refers to.
allReferenced ==
    /\ \A s \in servers : s.id = sdServer
    /\ \A r \in relays : r = sdRelay
    /\ \A b \in bridges : b[1] = sdBridge
    /\ \A m \in hMaps : m = mapFile
    /\ \A v \in hViews : v = bufferAddress

\* C35: after any sequence of desktop transitions, when a leaveSecureDesktop
\* that ran to its end has returned, no relay server, relay transport, bridge
\* or mapping made by enterSecureDesktop is left, and whenever no handler
\* call is in progress every live one is referenced by the handler.
C35_NoOrphans ==
    /\ (pc = "return" /\ call = "leave" /\ ~raised) => nothingAllocated
    /\ pc = "idle" => allReferenced

\* C35: a leaveSecureDesktop has torn a bundle down and returned.
C35_LeftAfterEnter ==
    /\ pc = "return" /\ call = "leave" /\ ~raised
    /\ count("sdServer.close", ops) = 1 /\ built # {}

\* The handler and one copy in the secure desktop, with the handshake
\* followed over time.
StaleInit ==
    /\ handlerIdle
    /\ modulesIdle
    /\ leftSince = "no" /\ rStarted = [r \in Readers |-> "other"]

StaleSpec == StaleInit /\ [][Next]_vars

\* C36: an initializeSecureDesktop that starts after a leaveSecureDesktop has
\* completed and before the next enterSecureDesktop has completed returns
\* None.
C36_NoneAfterLeave ==
    \A r \in Readers :
        (rpc[r] = "done" /\ rStarted[r] \in {"left", "entered"})
            => rResult[r].kind = "None"

\* C36: a call that starts after a leaveSecureDesktop has completed and
\* returns before the next enterSecureDesktop has completed returns None.
C36_NoneBeforeNextEnter ==
    \A r \in Readers :
        (rpc[r] = "done" /\ rStarted[r] = "left") => rResult[r].kind = "None"

\* C36: a call that started after a completed leaveSecureDesktop, with no
\* enterSecureDesktop completed since, has found no mapping or has timed out.
C36_NoneInWindow ==
    \E r \in Readers :
        /\ rpc[r] = "done" /\ rStarted[r] = "left"
        /\ rResult[r].kind = "None" /\ built # {}

\* ---------------------------------------------------------------------------
\* The display-info-changed hook of the attached session.

\* C37: whenever a follower session with a transport is attached and no call
\* of the handler is in progress, _onLeaderDisplayChange is registered for
\* SET_BRAILLE_INFO on that session's transport.
C37_HookRegisteredWhenIdle ==
    (pc = "idle" /\ hasFollowerTransport)
        => transport(followerSession) \in dispHook

\* C37: a session is attached, an enter has completed and the leave that
\* followed it has returned.
C37_LeftWithSession ==
    /\ pc = "idle" /\ hasFollowerTransport
    /\ built # {} /\ nothingAllocated

(***************************************************************************)
(* The handshake of one enterSecureDesktop call with the token the call    *)
(* generates itself: the call stands at line 215 with a port of every      *)
(* number of digits, the smallest and the largest port included.           *)
(***************************************************************************)
\* The port numbers getsockname() can report.
PortNumbers == 0..65535

\* The smallest and the largest port of every number of digits.
GeneratedPorts == {0, 9, 10, 99, 100, 999, 1000, 9999, 10000, 65535}

GeneratedInit ==
    /\ followerSession = "s1" /\ sdServer = 1 /\ sdRelay = NoId
    /\ sdBridge = NoId /\ mapFile = NoId /\ bufferAddress = NoId
    /\ \E port \in GeneratedPorts :
         /\ servers = {[id |-> 1, port |-> port, channel |-> uuid4(1, UUID_LEN)]}
         /\ lPort = port /\ lChannel = uuid4(1, UUID_LEN)
    /\ relays = {} /\ bridges = {} /\ dispHook = {transport("s1")}
    /\ eventSet = FALSE /\ shm = Zeros /\ hMaps = {1} /\ hViews = {1}
    /\ pc = "enter_write" /\ caller = "none" /\ arg = None /\ lId = 1
    /\ ops = <<"LocalRelayServer">> /\ call = "enter" /\ raised = FALSE
    /\ nextId = 2 /\ raises = 0 /\ built = {} /\ issued = <<1>>
    /\ rpc = [r \in Readers |-> "idle"]
    /\ rMapFile = [r \in Readers |-> FALSE]
    /\ rView = [r \in Readers |-> FALSE]
    /\ rResult = [r \in Readers |-> Pending]
    /\ subscribed = TRUE /\ ipcEventHandle = "open" /\ sent = <<>>
    /\ inbound = NoMessage
    /\ clients = {} /\ threads = {}
    /\ othersIdle

\* Lines 215-265 and the copy that reads the handshake. The except branch of
\* lines 226-236 starts where pc is "enter_abort".
GeneratedNext ==
    \/ enterWrite
    \/ enterWriteEnd
    \/ enterBuild
    \/ enterSignal
    \/ callReturns
    \/ \E r \in OneReader : readerStep(r)

GeneratedSpec == GeneratedInit /\ [][GeneratedNext]_vars

\* C38: for every port from 0 to 65535 and the 36-character token that
\* enterSecureDesktop generates, json.dumps([port, channel]) has at most 63
\* characters, so the terminator fits the buffer of 64 and the call never
\* reaches the except branch of lines 226-236.
C38_GeneratedAlwaysFits ==
    /\ pc # "enter_abort"
    /\ pc \in {"enter_write", "enter_write2"} =>
           Len(dumps(lPort, chars(lChannel))) <= IPC_MAXLEN - 1
    /\ (pc = "enter_write" /\ lPort = 0) =>
           \A port \in PortNumbers :
               Len(dumps(port, chars(lChannel))) <= IPC_MAXLEN - 1

\* C38: the call has written the handshake of the largest port and a
\* generated token, 47 characters, and has passed the test of line 224.
C38_LargestWritten ==
    /\ pc = "enter_build" /\ lPort = 65535 /\ lChannel.len = UUID_LEN
    /\ Len(wstring_at(shm)) = 47
    /\ terminatorFits(shm)

====
